---------------------------- MODULE Spec2Model ----------------------------
(***************************************************************************)
(* Model of the telemetry core of mothics: Track (track.py), Communicator  *)
(* (comm_interface.py) and Aggregator (aggregator.py).                     *)
(*                                                                         *)
(* Conventions                                                             *)
(*   - a Python Optional is a sequence: << >> is None, <<v>> is the value  *)
(*   - a Python list is a sequence (1-based here, 0-based in the source)   *)
(*   - a topic "<unit>/<sensor>/<quantity>" is the tuple of its segments,  *)
(*     "<unit>/last_timestamp" the tuple <<unit, "last_timestamp">>        *)
(*   - a directory is the sequence of its files ordered by modification    *)
(*     time, oldest first: writing a file puts it last                     *)
(*   - datetime.now() has two readings: `clock`, the fine grained instant, *)
(*     which differs from call to call, and `now`, the same instant        *)
(*     formatted with "%Y%m%d-%H%M%S", i.e. truncated to a whole second    *)
(*   - a call of connect, disconnect, publish and refresh of the           *)
(*     Communicator is one step; disconnect() of a single interface is     *)
(*     also followed step by step against its reader thread (iface_pc)     *)
(*   - a call of on_message_callback, of Communicator.raw_data and of      *)
(*     Aggregator.aggregate is one step; the loop thread of the Aggregator *)
(*     and a caller of stop() have a position each (agg_pc)                *)
(*   - a variable named h_... is a history added for stating properties;   *)
(*     ret and comm_ret record what the last call did                      *)
(***************************************************************************)
EXTENDS Integers, Sequences, FiniteSets, TLC

(***************************************************************************)
(* Bounds of the model                                                     *)
(***************************************************************************)
\* number of add_point calls explored
MaxPoints == 4
\* number of seconds the wall clock advances
MaxTime == 3
\* Track.max_datapoints (1e5 in the source), scaled down
MaxDatapoints == 2
\* Track.max_checkpoint_files (3 in the source), scaled down
MaxCheckpointFiles == 2
\* Track.checkpoint_interval in seconds (30 in the source), scaled down
CheckpointInterval == 1
\* number of times the disk starts failing
MaxFaults == 1
\* number of add_point calls explored in a burst
MaxBurst == 6
\* number of points of a track file that is loaded
MaxLoad == 3
\* number of get_current calls explored
MaxCalls == 6
\* Communicator.max_values
MaxValues == 2
\* number of messages the interfaces receive
MaxMsgs == 3
\* number of messages the interfaces receive while the Aggregator runs
MaxMsgsLive == 2
\* number of aggregate() cycles
MaxCycles == 2
\* number of start() calls between two calls of stop()
MaxStarts == 2
\* number of lines the reader threads of the interfaces read
MaxFrames == 2
\* number of samples that reach the fused view
MaxSamples == 2
\* number of track files written to the Database's directories
MaxFiles == 2
\* number of points of a Track that is exported to JSON and read back
MaxExported == 2
\* number of add_interfaces calls explored
MaxAdds == 2
\* number of lines the serial read loop is followed through
MaxLines == 3
\* number of executions of aggregate() followed statement by statement
MaxExecutions == 3
\* number of times the fused view changes between two fetches
MaxViews == 2
\* number of samples the read loop appends while raw_data reads are followed
MaxAppends == 4
\* number of raw_data reads followed statement by statement
MaxReads == 2

(***************************************************************************)
(* Python helpers                                                          *)
(***************************************************************************)
None == << >>
Some(v) == <<v>>

Min(a, b) == IF a < b THEN a ELSE b
Max(a, b) == IF a > b THEN a ELSE b

\* slice(start, stop).indices(n), step 1: negative indices count from the end,
\* everything is clamped to [0, n]; start may be None
SliceStart(start, n) ==
    IF start = None THEN 0
    ELSE IF start[1] < 0 THEN Max(start[1] + n, 0) ELSE Min(start[1], n)

SliceStop(stop, n) ==
    IF stop < 0 THEN Max(stop + n, 0) ELSE Min(stop, n)

\* seq[slice(start, stop)]
PySlice(seq, start, stop) ==
    LET a == SliceStart(start, Len(seq))
        b == SliceStop(stop, Len(seq))
    IN  IF a < b THEN SubSeq(seq, a + 1, b) ELSE << >>

\* del seq[start:end] with 0 <= start <= end <= len(seq)
DelRange(seq, start, end) ==
    SubSeq(seq, 1, start) \o SubSeq(seq, end + 1, Len(seq))

\* int(n * fraction) for a fraction num/den that a float represents exactly
IntFrac(n, num, den) == (n * num) \div den

(***************************************************************************)
(* Files                                                                   *)
(***************************************************************************)
\* "<stamp><specifier>.chk.json" in chk/, "<stamp>.json" in the output directory
FileName(stamp, specifier) == [stamp |-> stamp, specifier |-> specifier]

\* open(filename, 'w') + json.dump: replaces a file of the same name
WriteFile(dir, name, content) ==
    SelectSeq(dir, LAMBDA f : f.name # name)
        \o << [name |-> name, content |-> content] >>

RemoveFile(dir, name) == SelectSeq(dir, LAMBDA f : f.name # name)

\* re.search(r"-full\.chk\.json$", f)
IsFull(f) == f.name.specifier = "-full"

NonFull(dir) == SelectSeq(dir, LAMBDA f : ~IsFull(f))
FullFiles(dir) == SelectSeq(dir, LAMBDA f : IsFull(f))

(***************************************************************************)
(* DataPoint and the exporters                                             *)
(***************************************************************************)
DataPoint(timestamp, data) == [timestamp |-> timestamp, input_data |-> data]

\* export_to_json: the slice of the list that is dumped
export_to_json(points, interval) ==
    IF interval = None THEN points
    ELSE PySlice(points, interval[1].start, interval[1].stop)

Interval(start, stop) == Some([start |-> start, stop |-> stop])


(***************************************************************************)
(* Track (track.py).  A Track value is a record of the object's fields,    *)
(* the two directories it writes to, and io_log, the files written by the  *)
(* call in progress (an observation of the call, not a field of Track).    *)
(***************************************************************************)
\* Track.__init__: the fields after construction
TrackInit(field_names, mode, save_mode, trim_fraction) ==
    [ data_points         |-> << >>,
      field_names         |-> field_names,
      mode                |-> mode,
      save_mode           |-> save_mode,
      trim_fraction       |-> trim_fraction,
      replay_index        |-> 0,
      last_checkpoint     |-> None,
      save_interval_start |-> None,
      chk_dir             |-> << >>,
      out_dir             |-> << >>,
      io_log              |-> << >> ]

\* Track.save with the default json format: the exporter raises when the disk
\* fails; the exception is caught and logged (ok = FALSE in io_log), and nothing
\* is written
save(t, fname, dir, interval, disk_ok) ==
    IF ~disk_ok
    THEN [t EXCEPT !.io_log = Append(@, [dir |-> dir, name |-> fname,
                                         content |-> << >>, ok |-> FALSE])]
    ELSE LET content == export_to_json(t.data_points, interval)
             w == [dir |-> dir, name |-> fname, content |-> content, ok |-> TRUE]
         IN  IF dir = "chk"
             THEN [t EXCEPT !.chk_dir = WriteFile(@, fname, content),
                            !.io_log = Append(@, w)]
             ELSE [t EXCEPT !.out_dir = WriteFile(@, fname, content),
                            !.io_log = Append(@, w)]

\* Track._remove_datapoints(start, fraction), fraction given as num/den
remove_datapoints(t, start, num, den) ==
    IF t.data_points = << >> THEN t
    ELSE LET n == Len(t.data_points)
             num_to_remove == IntFrac(n, Max(0, Min(num, den)), den)
             s == Max(0, Min(start, n - 1))
             e == Min(s + num_to_remove, n)
         IN  [t EXCEPT !.data_points = DelRange(@, s, e)]

\* mutant: the interval start is set again when the run is already on
start_run_again(t) ==
    LET t1 == [t EXCEPT !.save_mode = "continuous",
                        !.save_interval_start = Some(Len(t.data_points) - 1)]
    IN  IF t1.save_interval_start[1] > 0
        THEN remove_datapoints(t1, 0, t.trim_fraction[1], t.trim_fraction[2])
        ELSE t1

\* Track.start_run
start_run(t) ==
    IF t.save_mode = "on-demand"
    THEN LET t1 == [t EXCEPT !.save_mode = "continuous",
                             !.save_interval_start = Some(Len(t.data_points) - 1)]
         IN  IF t1.save_interval_start[1] > 0
             THEN remove_datapoints(t1, 0, t.trim_fraction[1], t.trim_fraction[2])
             ELSE t1
    ELSE t

\* mutant: every checkpoint file is deleted
end_run_delete_all(t, now, disk_ok) ==
    IF t.save_mode # "on-demand"
    THEN LET interval == Interval(t.save_interval_start, Len(t.data_points) - 1)
             t1 == save(t, FileName(now, ""), "out", interval, disk_ok)
         IN  [t1 EXCEPT !.chk_dir = << >>,
                        !.save_interval_start = None,
                        !.last_checkpoint = None,
                        !.save_mode = "on-demand"]
    ELSE t

\* Track.end_run
end_run(t, now, disk_ok) ==
    IF t.save_mode # "on-demand"
    THEN LET interval == Interval(t.save_interval_start, Len(t.data_points) - 1)
             t1 == save(t, FileName(now, ""), "out", interval, disk_ok)
         IN  [t1 EXCEPT !.chk_dir = FullFiles(@),
                        !.save_interval_start = None,
                        !.last_checkpoint = None,
                        !.save_mode = "on-demand"]
    ELSE t

\* (now - self._last_checkpoint).total_seconds() > self.checkpoint_interval, on
\* whole-second readings of the two instants: when the readings differ by exactly
\* the interval, the fractions of a second decide (elapsed_more)
IntervalElapsed(last, now, elapsed_more) ==
    \/ now - last > CheckpointInterval
    \/ now - last = CheckpointInterval /\ elapsed_more

\* Track._save_checkpoint(force, specifier); specifier None is ""
save_checkpoint(t, force, specifier, now, elapsed_more, disk_ok) ==
    IF t.save_mode = "continuous"
    THEN LET due == \/ t.last_checkpoint = None
                    \/ force
                    \/ IntervalElapsed(t.last_checkpoint[1], now, elapsed_more)
             interval == Interval(t.save_interval_start, Len(t.data_points) - 1)
             t1 == IF due
                   THEN save([t EXCEPT !.last_checkpoint = Some(now)],
                             FileName(now, specifier), "chk", interval, disk_ok)
                   ELSE t
             chk_files == NonFull(t1.chk_dir)
         IN  IF Len(chk_files) > MaxCheckpointFiles
             THEN [t1 EXCEPT !.chk_dir = RemoveFile(@, chk_files[1].name)]
             ELSE t1
    ELSE t

\* mutant: the capacity branch removes nothing
evict_nothing(t, now, elapsed_more, disk_ok) ==
    IF Len(t.data_points) > MaxDatapoints
    THEN save_checkpoint(t, TRUE, "-full", now, elapsed_more, disk_ok)
    ELSE t

\* the capacity branch of Track.add_point (lines 316-321)
evict(t, now, elapsed_more, disk_ok) ==
    IF Len(t.data_points) > MaxDatapoints
    THEN LET t1 == save_checkpoint(t, TRUE, "-full", now, elapsed_more, disk_ok)
             n  == Len(t1.data_points)
         IN  remove_datapoints(t1, 0, n - 1, n)
    ELSE t

\* mutant: the check of the key set is dropped
inconsistent_fields_unchecked(t, data) == FALSE

\* set(self.field_names) != set(data.keys()) when field names were given
inconsistent_fields(t, data) ==
    t.field_names # None /\ t.field_names[1] # DOMAIN data

\* Track.add_point: [raised, t]
add_point(t, timestamp, data, now, elapsed_more, disk_ok) ==
    IF inconsistent_fields(t, data)
    THEN [raised |-> TRUE, t |-> t]
    ELSE LET t1 == evict(t, now, elapsed_more, disk_ok)
             t2 == [t1 EXCEPT !.data_points = Append(@, DataPoint(timestamp, data))]
         IN  [raised |-> FALSE,
              t |-> save_checkpoint(t2, FALSE, "", now, elapsed_more, disk_ok)]

\* Track.load: the points of a JSON file; the Track becomes a replay Track
load(t, content) ==
    [t EXCEPT !.data_points = content, !.mode = "replay"]

\* mutant: the replay index is not limited to the length of the sequence
get_replay_track_unbounded(t) ==
    IF t.data_points = << >>
    THEN [raised |-> TRUE, value |-> << >>, t |-> t]
    ELSE LET i == t.replay_index + 1
         IN  [raised |-> FALSE,
              value  |-> SubSeq(t.data_points, 1, Min(i, Len(t.data_points))),
              t      |-> [t EXCEPT !.replay_index = i]]

\* Track._get_replay_track: [raised, value, t], value the data_points of the
\* mock Track returned
get_replay_track(t) ==
    IF t.data_points = << >>
    THEN [raised |-> TRUE, value |-> << >>, t |-> t]
    ELSE LET i == Min(t.replay_index + 1, Len(t.data_points))
         IN  [raised |-> FALSE,
              value  |-> SubSeq(t.data_points, 1, i),
              t      |-> [t EXCEPT !.replay_index = i]]

\* Track.get_current
get_current(t) ==
    IF t.mode = "live"
    THEN [raised |-> FALSE, value |-> t.data_points, t |-> t]
    ELSE get_replay_track(t)


(***************************************************************************)
(* Python dict: insertion ordered, a sequence of [key, val] entries         *)
(***************************************************************************)
DictHas(d, k) == \E i \in 1..Len(d) : d[i].key = k

DictGet(d, k) == d[CHOOSE i \in 1..Len(d) : d[i].key = k].val

\* d[k] = v: an existing key keeps its place, a new key goes last
DictSet(d, k, v) ==
    IF DictHas(d, k)
    THEN [i \in 1..Len(d) |-> IF d[i].key = k THEN [key |-> k, val |-> v] ELSE d[i]]
    ELSE Append(d, [key |-> k, val |-> v])

DictKeys(d) == { d[i].key : i \in 1..Len(d) }

(***************************************************************************)
(* Interfaces and Communicator (comm_interface.py).  A sample {timestamp:   *)
(* data} is the record [ts, val].                                           *)
(***************************************************************************)
Sample(ts, val) == [ts |-> ts, val |-> val]

\* SerialInterface.__init__ / MQTTInterface.__init__: topics and the buffer;
\* not connected, no serial connection (is_open stands for `self.serial_conn and
\* self.serial_conn.is_open`), the reader thread not yet created.  A reader
\* thread that is alive is at "test" (about to test `while self.running`) or at
\* "read" (inside the loop body, in readline or handling the line it read)
InterfaceInit(topics) ==
    [ topics    |-> topics,
      raw_data  |-> [i \in 1..Len(topics) |-> [key |-> topics[i], val |-> << >>]],
      connected |-> FALSE,
      running   |-> FALSE,
      is_open   |-> FALSE,
      thread    |-> "unset" ]

InList(x, list) == \E i \in 1..Len(list) : list[i] = x

\* on_message_callback(topic, data), the same in both interfaces
on_message_callback(iface, topic, data, timestamp) ==
    LET rd1 == IF ~InList(topic, iface.topics)
               THEN DictSet(iface.raw_data, topic, << >>)
               ELSE iface.raw_data
    IN  [iface EXCEPT !.raw_data =
            DictSet(rd1, topic, Append(DictGet(rd1, topic), Sample(timestamp, data)))]

\* Communicator.__init__ and add_interfaces: the interfaces dict, by name
CommunicatorInit(interfaces, max_values, trim_fraction) ==
    [ interfaces    |-> interfaces,
      max_values    |-> max_values,
      trim_fraction |-> trim_fraction ]

\* mutant: the newest samples are trimmed
Drop_newest(list, n) == SubSeq(list, 1, Len(list) - n)

\* data_list[trim_count:]
Drop(list, n) == SubSeq(list, n + 1, Len(list))

\* mutant: the list that is merged is the trimmed one
MergeTopic_trimmed(comm, iface, merged, topic, data_list) ==
    LET trim_count == IntFrac(Len(data_list), comm.trim_fraction[1], comm.trim_fraction[2])
        kept == IF Len(data_list) > comm.max_values
                THEN Drop(data_list, trim_count) ELSE data_list
        merged1 == IF DictHas(merged, topic) THEN merged ELSE DictSet(merged, topic, << >>)
    IN  [ iface  |-> [iface EXCEPT !.raw_data = DictSet(@, topic, kept)],
          merged |-> DictSet(merged1, topic, DictGet(merged1, topic) \o kept) ]

\* the body of the inner loop of raw_data for one (topic, data_list) of one
\* interface: the buffer is trimmed, the list read before the trim is merged
MergeTopic(comm, iface, merged, topic, data_list) ==
    LET trim_count == IntFrac(Len(data_list), comm.trim_fraction[1], comm.trim_fraction[2])
        iface1 == IF Len(data_list) > comm.max_values
                  THEN [iface EXCEPT !.raw_data = DictSet(@, topic, Drop(data_list, trim_count))]
                  ELSE iface
        merged1 == IF DictHas(merged, topic) THEN merged ELSE DictSet(merged, topic, << >>)
    IN  [ iface  |-> iface1,
          merged |-> DictSet(merged1, topic, DictGet(merged1, topic) \o data_list) ]

\* for topic, data_list in interface.raw_data.items(), from entry i on
RECURSIVE MergeInterface(_, _, _, _)
MergeInterface(comm, iface, merged, i) ==
    IF i > Len(iface.raw_data) THEN [iface |-> iface, merged |-> merged]
    ELSE LET r == MergeTopic(comm, iface, merged,
                             iface.raw_data[i].key, iface.raw_data[i].val)
         IN  MergeInterface(comm, r.iface, r.merged, i + 1)

\* for interface in self.interfaces.values(), from entry i to entry last
RECURSIVE MergeAll(_, _, _, _)
MergeAll(comm, merged, i, last) ==
    IF i > last THEN [comm |-> comm, merged |-> merged]
    ELSE LET r == MergeInterface(comm, comm.interfaces[i].val, merged, 1)
         IN  MergeAll([comm EXCEPT !.interfaces[i].val = r.iface], r.merged, i + 1, last)

\* list.sort(key=timestamp): a stable sort, here by insertion
RECURSIVE InsertByTs(_, _)
InsertByTs(sorted, x) ==
    IF sorted = << >> THEN <<x>>
    ELSE IF sorted[Len(sorted)].ts <= x.ts THEN Append(sorted, x)
    ELSE Append(InsertByTs(SubSeq(sorted, 1, Len(sorted) - 1), x), sorted[Len(sorted)])

RECURSIVE SortByTimestamp(_)
SortByTimestamp(list) ==
    IF list = << >> THEN << >>
    ELSE InsertByTs(SortByTimestamp(SubSeq(list, 1, Len(list) - 1)), list[Len(list)])

\* mutant: the merged lists are returned as concatenated
SortMerged_unsorted(merged) == merged

\* merged_data[topic].sort(...) for every topic (no preprocessor is configured)
SortMerged(merged) ==
    [i \in 1..Len(merged) |->
        [key |-> merged[i].key, val |-> SortByTimestamp(merged[i].val)]]

\* Communicator.raw_data: [comm, value], comm with the trimmed buffers, value
\* the merged dict that is returned
raw_data(comm) ==
    LET r == MergeAll(comm, << >>, 1, Len(comm.interfaces))
    IN  [comm |-> r.comm, value |-> SortMerged(r.merged)]

\* Communicator.raw_data that raises while it iterates over the buffer of
\* interface k + 1 (RuntimeError: a reader thread added a topic to the dict
\* being iterated): the interfaces before it have been trimmed, nothing is
\* returned
raw_data_raises(comm, k) == MergeAll(comm, << >>, 1, k).comm

(***************************************************************************)
(* Connecting, disconnecting and publishing.  `fails` says whether the     *)
(* transport (serial.Serial(...), serial_conn.close(), serial_conn.write)  *)
(* raises at this call; for a Communicator operation it is the set of the  *)
(* names of the interfaces whose transport raises.                         *)
(***************************************************************************)
\* SerialInterface.connect and _loop_start: nothing is assigned when
\* serial.Serial raises; a reader thread is started unless self.running
iface_connect(iface, fails) ==
    IF fails
    THEN [iface |-> iface, raised |-> TRUE]
    ELSE [iface |-> [iface EXCEPT !.is_open = TRUE, !.connected = TRUE,
                                  !.running = TRUE,
                                  !.thread = IF iface.running THEN @ ELSE "test"],
          raised |-> FALSE]

\* _loop_stop, up to the join: self.running = False
loop_stop(iface) == [iface EXCEPT !.running = FALSE]

\* mutant: the caller does not wait for the reader thread
joinable_always(iface) == TRUE

\* `if self.thread and self.thread.is_alive(): self.thread.join()` lets the
\* caller through once the reader thread is not alive
joinable(iface) == iface.thread \notin {"test", "read"}

\* the reader thread as join() leaves it when no line arrives meanwhile
join(iface) == [iface EXCEPT !.thread = IF @ \in {"test", "read"} THEN "dead" ELSE @]

\* SerialInterface.disconnect after the loop is stopped: close the connection
\* if it is open, then connected = False
close(iface, fails) ==
    IF iface.is_open /\ fails
    THEN [iface |-> iface, raised |-> TRUE]
    ELSE [iface |-> [iface EXCEPT !.is_open = FALSE, !.connected = FALSE],
          raised |-> FALSE]

\* SerialInterface.disconnect as one step
iface_disconnect(iface, fails) ==
    close(IF iface.running THEN join(loop_stop(iface)) ELSE iface, fails)

\* SerialInterface.publish: raises without an open connection or when the
\* write fails; the interface is left as it is
iface_publish(iface, topic, fails) == ~iface.is_open \/ fails

\* list(self.interfaces.keys())
Names(comm) == [i \in 1..Len(comm.interfaces) |-> comm.interfaces[i].key]

\* one call made on an interface, and whether it raised
CallOf(name, op, raised) == [name |-> name, op |-> op, raised |-> raised]

\* what a Communicator operation did: the Communicator after it, whether it
\* raised, the calls it made on interfaces in order, the warnings it logged
Done(comm, raised, calls, warnings) ==
    [comm |-> comm, raised |-> raised, calls |-> calls, warnings |-> warnings]

\* mutant: the loop of connect ends at the first interface that fails
connect_until_failure(comm, fails) ==
    LET n == Len(comm.interfaces)
        names == Names(comm)
        bad == { i \in 1..n : names[i] \in fails }
        last == IF bad = {} THEN n ELSE CHOOSE i \in bad : \A j \in bad : i <= j
        r == [i \in 1..last |-> iface_connect(comm.interfaces[i].val, names[i] \in fails)]
    IN  Done([comm EXCEPT !.interfaces =
                  [i \in 1..n |-> IF i <= last
                                  THEN [key |-> names[i], val |-> r[i].iface]
                                  ELSE comm.interfaces[i]]],
             FALSE,
             [i \in 1..last |-> CallOf(names[i], "connect", r[i].raised)],
             << >>)

\* Communicator.connect
connect(comm, fails) ==
    LET n == Len(comm.interfaces)
        names == Names(comm)
        r == [i \in 1..n |-> iface_connect(comm.interfaces[i].val, names[i] \in fails)]
        failed_interfaces == SelectSeq(names, LAMBDA nm : nm \in fails)
    IN  Done([comm EXCEPT !.interfaces =
                  [i \in 1..n |-> [key |-> names[i], val |-> r[i].iface]]],
             FALSE,
             [i \in 1..n |-> CallOf(names[i], "connect", r[i].raised)],
             (IF failed_interfaces = names
              THEN <<"failed to start all interfaces">> ELSE << >>)
               \o (IF failed_interfaces # << >>
                   THEN <<"Failed to start interfaces">> ELSE << >>))

\* Communicator.disconnect: the loop ends at the first interface whose
\* disconnect raises, with RuntimeError
disconnect(comm, fails) ==
    LET n == Len(comm.interfaces)
        names == Names(comm)
        r == [i \in 1..n |-> iface_disconnect(comm.interfaces[i].val, names[i] \in fails)]
        bad == { i \in 1..n : r[i].raised }
        last == IF bad = {} THEN n ELSE CHOOSE i \in bad : \A j \in bad : i <= j
    IN  Done([comm EXCEPT !.interfaces =
                  [i \in 1..n |-> IF i <= last
                                  THEN [key |-> names[i], val |-> r[i].iface]
                                  ELSE comm.interfaces[i]]],
             bad # {},
             [i \in 1..last |-> CallOf(names[i], "disconnect", r[i].raised)],
             IF bad # {} THEN <<"error stopping">> ELSE << >>)

\* mutant: an interface that rejects the message ends the loop
publish_until_failure(comm, topic, interfaces, fails) ==
    LET names == IF interfaces = None THEN Names(comm) ELSE interfaces[1]
        registered == SelectSeq(names, LAMBDA nm : DictHas(comm.interfaces, nm))
        raises(j) == iface_publish(DictGet(comm.interfaces, registered[j]), topic,
                                   registered[j] \in fails)
        bad == { j \in 1..Len(registered) : raises(j) }
        last == IF bad = {} THEN Len(registered)
                ELSE CHOOSE j \in bad : \A k \in bad : j <= k
    IN  Done(comm, bad # {},
             [j \in 1..last |-> CallOf(registered[j], "publish", raises(j))],
             << >>)

\* Communicator.publish; `interfaces` is None or a list of names
publish(comm, topic, interfaces, fails) ==
    LET names == IF interfaces = None THEN Names(comm) ELSE interfaces[1]
        registered == SelectSeq(names, LAMBDA nm : DictHas(comm.interfaces, nm))
        unknown == SelectSeq(names, LAMBDA nm : ~DictHas(comm.interfaces, nm))
        raises(j) == iface_publish(DictGet(comm.interfaces, registered[j]), topic,
                                   registered[j] \in fails)
    IN  Done(comm, FALSE,
             [j \in 1..Len(registered) |-> CallOf(registered[j], "publish", raises(j))],
             [j \in 1..Len(unknown) |-> "interface not found"]
               \o (IF \E j \in 1..Len(registered) : raises(j)
                   THEN <<"failed to publish">> ELSE << >>))

\* mutant: refresh connects every interface
refresh_all(comm, force_reconnect, fails_disconnect, fails_connect) ==
    LET r == connect(comm, fails_connect)
    IN  Done(r.comm, FALSE, r.calls, << >>)

\* Communicator.refresh
refresh(comm, force_reconnect, fails_disconnect, fails_connect) ==
    LET n == Len(comm.interfaces)
        names == Names(comm)
        d == [i \in 1..n |->
                 IF force_reconnect
                 THEN iface_disconnect(comm.interfaces[i].val, names[i] \in fails_disconnect)
                 ELSE [iface |-> comm.interfaces[i].val, raised |-> FALSE]]
        todo == SelectSeq([i \in 1..n |-> i], LAMBDA i : ~d[i].iface.connected)
        c == [i \in 1..n |->
                 IF ~d[i].iface.connected
                 THEN iface_connect(d[i].iface, names[i] \in fails_connect)
                 ELSE d[i]]
    IN  Done([comm EXCEPT !.interfaces =
                  [i \in 1..n |-> [key |-> names[i], val |-> c[i].iface]]],
             FALSE,
             (IF force_reconnect
              THEN [i \in 1..n |-> CallOf(names[i], "disconnect", d[i].raised)]
              ELSE << >>)
               \o [j \in 1..Len(todo) |-> CallOf(names[todo[j]], "connect", c[todo[j]].raised)],
             (IF force_reconnect /\ \E i \in 1..n : d[i].raised
              THEN <<"error stopping">> ELSE << >>)
               \o (IF \E j \in 1..Len(todo) : c[todo[j]].raised
                   THEN <<"failed to refresh interfaces">> ELSE << >>))

\* the topics of the remote units
T_lat == <<"rm1", "gps", "lat">>
T_long == <<"rm1", "gps", "long">>
T_wind == <<"rm2", "wind", "speed">>
T_roll == <<"rm3", "imu", "roll">>

(***************************************************************************)
(* Preprocessors (preprocessors.py).  The dict {topic: samples} they are   *)
(* applied to holds the sample objects themselves, so a value overwritten  *)
(* by apply() is what the next apply() finds.  A sample carries h_raw, the *)
(* history of the value it was received with.                              *)
(***************************************************************************)
Observed(ts, val) == [ts |-> ts, val |-> val, h_raw |-> val]

\* data.get(topic, [])
TopicList(d, topic) == IF DictHas(d, topic) THEN DictGet(d, topic) ELSE << >>

\* the destination of the converted longitude
T_long_rad == <<"rm1", "gps", "long_rad">>

\* the scalar transform of a conversion rule
Convert(v) == v * 10

\* UnitConversion.conversions: the wind speed is converted in place, the
\* longitude to another topic
Conversions ==
    << [key |-> T_wind, val |-> [dst_topic |-> T_wind]],
       [key |-> T_long, val |-> [dst_topic |-> T_long_rad]] >>

\* UnitConversion.__init__
UnitConversionInit == [conversions |-> Conversions, last_done |-> << >>]

\* UnitConversion.apply, the in-place loop from sample i on
RECURSIVE ConvertInPlace(_, _, _)
ConvertInPlace(samples, i, last_done) ==
    IF i > Len(samples) THEN [samples |-> samples, last_done |-> last_done]
    ELSE IF last_done # None /\ samples[i].ts <= last_done[1]
         THEN ConvertInPlace(samples, i + 1, last_done)
         ELSE ConvertInPlace([samples EXCEPT ![i].val = Convert(@)], i + 1,
                             Some(samples[i].ts))

\* UnitConversion.apply, the loop that appends to the destination from sample i on
RECURSIVE ConvertTo(_, _, _, _)
ConvertTo(samples, i, last_done, dest) ==
    IF i > Len(samples) THEN [dest |-> dest, last_done |-> last_done]
    ELSE IF last_done # None /\ samples[i].ts <= last_done[1]
         THEN ConvertTo(samples, i + 1, last_done, dest)
         ELSE ConvertTo(samples, i + 1, Some(samples[i].ts),
                        Append(dest, [ts |-> samples[i].ts,
                                      val |-> Convert(samples[i].val),
                                      h_raw |-> samples[i].h_raw]))

\* UnitConversion.apply over the topics the dict held when the call began,
\* from the k-th on
RECURSIVE UnitConversion_apply_from(_, _, _, _)
UnitConversion_apply_from(uc, d, topics, k) ==
    IF k > Len(topics) THEN [uc |-> uc, data |-> d]
    ELSE LET topic == topics[k]
             last_done == IF DictHas(uc.last_done, topic)
                          THEN DictGet(uc.last_done, topic) ELSE None
         IN  IF ~DictHas(uc.conversions, topic)
             THEN UnitConversion_apply_from(uc, d, topics, k + 1)
             ELSE IF DictGet(uc.conversions, topic).dst_topic = topic
             THEN LET r == ConvertInPlace(DictGet(d, topic), 1, last_done)
                  IN  UnitConversion_apply_from(
                          [uc EXCEPT !.last_done = DictSet(@, topic, r.last_done)],
                          DictSet(d, topic, r.samples), topics, k + 1)
             ELSE LET dst_topic == DictGet(uc.conversions, topic).dst_topic
                      r == ConvertTo(DictGet(d, topic), 1, last_done,
                                     TopicList(d, dst_topic))
                  IN  UnitConversion_apply_from(
                          [uc EXCEPT !.last_done = DictSet(@, topic, r.last_done)],
                          DictSet(d, dst_topic, r.dest), topics, k + 1)

\* UnitConversion.apply(data)
UnitConversion_apply(uc, d) ==
    UnitConversion_apply_from(uc, d, [i \in 1..Len(d) |-> d[i].key], 1)

\* AngleOffset.__init__ with an offset for the roll angle
AngleOffsetInit ==
    [ offsets    |-> << [key |-> T_roll, val |-> 0] >>,
      last_ts    |-> << >>,
      latest_raw |-> << >> ]

\* AngleOffset.set_offset
set_offset(ao, topic, offset) == [ao EXCEPT !.offsets = DictSet(@, topic, offset)]

\* AngleOffset.calibrate(topics=None), from the k-th cached topic on
RECURSIVE calibrate_from(_, _)
calibrate_from(ao, k) ==
    IF k > Len(ao.latest_raw) THEN ao
    ELSE calibrate_from([ao EXCEPT !.offsets =
                             DictSet(@, ao.latest_raw[k].key, 0 - ao.latest_raw[k].val)],
                        k + 1)

calibrate(ao) == calibrate_from(ao, 1)

\* AngleOffset.apply, the loop of a scalar topic from sample i on
RECURSIVE OffsetScalar(_, _, _, _, _)
OffsetScalar(samples, i, offset, last_ts, latest_raw) ==
    IF i > Len(samples)
    THEN [samples |-> samples, last_ts |-> last_ts, latest_raw |-> latest_raw]
    ELSE IF last_ts # None /\ samples[i].ts <= last_ts[1]
         THEN OffsetScalar(samples, i + 1, offset, last_ts, Some(samples[i].val))
         ELSE OffsetScalar([samples EXCEPT ![i].val = @ + offset], i + 1, offset,
                           Some(samples[i].ts), Some(samples[i].val))

\* AngleOffset.apply(data), from the k-th topic of the dict on
RECURSIVE AngleOffset_apply_from(_, _, _)
AngleOffset_apply_from(ao, d, k) ==
    IF k > Len(d) THEN [ao |-> ao, data |-> d]
    ELSE LET topic == d[k].key
         IN  IF ~DictHas(ao.offsets, topic)
             THEN AngleOffset_apply_from(ao, d, k + 1)
             ELSE LET r == OffsetScalar(d[k].val, 1, DictGet(ao.offsets, topic),
                                        IF DictHas(ao.last_ts, topic)
                                        THEN DictGet(ao.last_ts, topic) ELSE None,
                                        None)
                  IN  AngleOffset_apply_from(
                          [ao EXCEPT !.last_ts = DictSet(@, topic, r.last_ts),
                                     !.latest_raw =
                                        IF r.latest_raw = None THEN @
                                        ELSE DictSet(@, topic, r.latest_raw[1])],
                          DictSet(d, topic, r.samples), k + 1)

AngleOffset_apply(ao, d) == AngleOffset_apply_from(ao, d, 1)

(***************************************************************************)
(* Database (database.py).  A directory is the sequence of its files in    *)
(* the order glob() yields them.                                           *)
(***************************************************************************)
\* a file name "<base>.<ext>" or "<base>.chk.<ext>"
Name(base, chk, ext) == [base |-> base, chk |-> chk, ext |-> ext]

\* db_fname, "tracks_metadata.json"
DbFname == Name("tracks_metadata", FALSE, "json")

\* the keys of _export_methods that are exported to here
ExportFormats == {"json", "csv"}

Exists(dir, name) == \E i \in 1..Len(dir) : dir[i].name = name

\* Database.__init__ over an empty directory: TinyDB creates the registry file,
\* load_tracks finds no track
DatabaseInit ==
    [ tracks    |-> << >>,
      directory |-> << [name |-> DbFname, content |-> "registry"] >>,
      chk       |-> << >>,
      mtime     |-> << >> ]

\* validate_json: a list of points, possibly empty, passes; malformed JSON
\* (JSONDecodeError) and JSON that is not a list of points (ValidationError) do not
validate_json(file) == file.content \in {"points", "empty"}

\* validate_json catches JSONDecodeError and ValidationError only: the
\* UnicodeDecodeError of a file whose bytes are not text leaves it
validate_json_raises(file) == file.content = "undecodable"

\* existing_exports[base_name]: the formats f for which "<base_name>.<f>" is in
\* the directory
existing_exports(directory, base, chk) ==
    { ext \in ExportFormats : Exists(directory, Name(base, chk, ext)) }

\* process_file: the registry entry of a file; base_name is the stem without
\* ".chk"
process_file(db, file, filepath) ==
    [ filename   |-> file.name,
      checkpoint |-> file.name.chk,
      filepath   |-> filepath,
      exports    |-> existing_exports(db.directory, file.name.base, FALSE) ]

\* Database.load_tracks: truncate, then glob("*.json") in the directory and
\* glob("*.chk.json") in chk/
load_tracks(db) ==
    LET main == SelectSeq(db.directory,
                    LAMBDA f : f.name.ext = "json" /\ f.name # DbFname)
        chk == SelectSeq(db.chk, LAMBDA f : f.name.ext = "json" /\ f.name.chk)
        scanned == [i \in 1..Len(main) |-> [file |-> main[i], filepath |-> "directory"]]
                     \o [i \in 1..Len(chk) |-> [file |-> chk[i], filepath |-> "chk"]]
        raises == { i \in 1..Len(scanned) : validate_json_raises(scanned[i].file) }
        last == IF raises = {} THEN Len(scanned)
                ELSE (CHOOSE i \in raises : \A j \in raises : i <= j) - 1
        valid == SelectSeq(SubSeq(scanned, 1, last), LAMBDA s : validate_json(s.file))
    IN  [ db     |-> [db EXCEPT !.tracks =
                        [i \in 1..Len(valid) |->
                            process_file(db, valid[i].file, valid[i].filepath)]],
          raised |-> raises # {} ]

\* fname.stat().st_mtime of a file of the directory or of chk/: db.mtime holds
\* the time of the last write of each file
Stat(db, filepath, name) ==
    LET key == [filepath |-> filepath, name |-> name]
    IN  IF DictHas(db.mtime, key) THEN DictGet(db.mtime, key) ELSE 0

\* found_files of load_tracks_incrementally: a dict from file name to mtime,
\* filled from glob("*.json") of the directory and then from glob("*.chk.json")
\* of chk/, as the sequence of its items
found_files(db) ==
    LET main == SelectSeq(db.directory,
                    LAMBDA f : f.name.ext = "json" /\ f.name # DbFname)
        chk == SelectSeq(db.chk, LAMBDA f : f.name.ext = "json" /\ f.name.chk)
        InChk(name) == \E j \in 1..Len(chk) : chk[j].name = name
        InMain(name) == \E j \in 1..Len(main) : main[j].name = name
        only_chk == SelectSeq(chk, LAMBDA f : ~InMain(f.name))
    IN  [i \in 1..Len(main) |->
            [name |-> main[i].name,
             mtime |-> IF InChk(main[i].name) THEN Stat(db, "chk", main[i].name)
                       ELSE Stat(db, "directory", main[i].name)]]
          \o [i \in 1..Len(only_chk) |->
                [name |-> only_chk[i].name, mtime |-> Stat(db, "chk", only_chk[i].name)]]

\* existing_tracks.get(fname): the last entry of the registry with the filename
existing_track(tracks, fname) ==
    LET at == { i \in 1..Len(tracks) : tracks[i].filename = fname }
    IN  IF at = {} THEN None
        ELSE Some(tracks[CHOOSE i \in at : \A j \in at : j <= i])

\* the last loop of load_tracks_incrementally from item k of found_files on: a
\* file that is new or whose mtime differs from the entry's is validated, and
\* inserted or updated when it is valid; r is [db, raised]
RECURSIVE incremental_from(_, _, _, _)
incremental_from(r, existing, found, k) ==
    IF r.raised \/ k > Len(found) THEN r
    ELSE
    LET fname == found[k].name
        mtime == found[k].mtime
        db_track == existing_track(existing, fname)
        changed == \/ db_track = None
                   \/ "mtime" \notin DOMAIN db_track[1]
                   \/ db_track[1].mtime # mtime
        filepath == IF fname.chk THEN "chk" ELSE "directory"
        dir == IF fname.chk THEN r.db.chk ELSE r.db.directory
    IN  IF ~changed THEN incremental_from(r, existing, found, k + 1)
        ELSE IF ~Exists(dir, fname) THEN [r EXCEPT !.raised = TRUE]
        ELSE
        LET file == dir[CHOOSE i \in 1..Len(dir) : dir[i].name = fname]
            exports == existing_exports(r.db.directory, fname.base, FALSE)
            meta(old) == [ filename   |-> fname,
                           checkpoint |-> fname.chk,
                           filepath   |-> filepath,
                           mtime      |-> mtime,
                           exports    |-> IF exports # {} THEN exports ELSE old ]
        IN  IF validate_json_raises(file) THEN [r EXCEPT !.raised = TRUE]
            ELSE IF ~validate_json(file) THEN incremental_from(r, existing, found, k + 1)
            ELSE incremental_from(
                     [r EXCEPT !.db.tracks =
                         IF db_track = None THEN Append(@, meta({}))
                         ELSE [i \in 1..Len(@) |->
                                  IF @[i].filename = fname THEN meta(@[i].exports)
                                  ELSE @[i]]],
                     existing, found, k + 1)

\* Database.load_tracks_incrementally: the entries whose file is gone are
\* removed, then the new and the modified files are validated
load_tracks_incrementally(db) ==
    LET found == found_files(db)
        kept == SelectSeq(db.tracks,
                    LAMBDA t : \E i \in 1..Len(found) : found[i].name = t.filename)
    IN  incremental_from([db |-> [db EXCEPT !.tracks = kept], raised |-> FALSE],
                         kept, found, 1)

\* the registry entry a track_id (an index, from 0, or a filename) selects, if any
Lookup(db, track_id) ==
    IF track_id.by = "index"
    THEN IF 0 <= track_id.index /\ track_id.index < Len(db.tracks)
         THEN Some(db.tracks[track_id.index + 1]) ELSE None
    ELSE IF \E i \in 1..Len(db.tracks) : db.tracks[i].filename = track_id.filename
         THEN Some(db.tracks[CHOOSE i \in 1..Len(db.tracks) :
                       /\ db.tracks[i].filename = track_id.filename
                       /\ \A j \in 1..(i - 1) : db.tracks[j].filename # track_id.filename])
         ELSE None

\* Database.get_track_path: where the file of the selected entry is, None when
\* no entry is selected or the file is in neither directory
get_track_path(db, track_id) ==
    LET track == Lookup(db, track_id)
    IN  IF track = None THEN None
        ELSE IF track[1].checkpoint /\ Exists(db.chk, track[1].filename)
        THEN Some([dir |-> "chk", name |-> track[1].filename])
        ELSE IF Exists(db.directory, track[1].filename)
        THEN Some([dir |-> "directory", name |-> track[1].filename])
        ELSE None

\* Database.remove_track; `fails` says whether os.remove raises
remove_track(db, track_id, delete_from_disk, fails) ==
    LET track_path == get_track_path(db, track_id)
    IN  IF track_path = None THEN [db |-> db, raised |-> TRUE]
        ELSE LET removed == [db EXCEPT !.tracks =
                                SelectSeq(@, LAMBDA t : t.filename # track_path[1].name)]
             IN  IF ~delete_from_disk THEN [db |-> removed, raised |-> FALSE]
                 ELSE IF fails THEN [db |-> removed, raised |-> TRUE]
                 ELSE [db |-> IF track_path[1].dir = "chk"
                              THEN [removed EXCEPT !.chk = RemoveFile(@, track_path[1].name)]
                              ELSE [removed EXCEPT !.directory =
                                       RemoveFile(@, track_path[1].name)],
                       raised |-> FALSE]

\* the content of the file temp_track.save writes, None when save writes
\* nothing: the write fails, or export_to_csv finds no first point (both are
\* caught and logged inside Track.save)
Saved(content, export_format, write_ok) ==
    IF ~write_ok THEN None
    ELSE IF export_format = "json" THEN Some(content)
    ELSE IF content = "empty" THEN None
    ELSE Some("export")

\* Database.export_track; returns a message, never raises
export_track(db, track_id, export_format, write_ok) ==
    LET track == Lookup(db, track_id)
    IN  IF track = None THEN [db |-> db, msg |-> TRUE]
        ELSE
        LET filename == track[1].filename
            export_fname == Name(filename.base, filename.chk, export_format)
            track_path == get_track_path(db, track_id)
            recorded(d) == [d EXCEPT !.tracks =
                [i \in 1..Len(@) |->
                    IF @[i].filename = filename
                    THEN [@[i] EXCEPT !.exports = track[1].exports \cup {export_format}]
                    ELSE @[i]]]
        IN  IF Exists(db.directory, export_fname)
            THEN [db |-> recorded(db), msg |-> FALSE]
            ELSE IF track_path = None THEN [db |-> db, msg |-> TRUE]
            ELSE
            LET dir == IF track_path[1].dir = "chk" THEN db.chk ELSE db.directory
                source == dir[CHOOSE i \in 1..Len(dir) : dir[i].name = filename]
            IN  IF source.content \in {"malformed", "undecodable"}
                THEN [db |-> db, msg |-> TRUE]
                ELSE LET saved == Saved(source.content, export_format, write_ok)
                     IN  [db |-> recorded(
                                    IF saved = None THEN db
                                    ELSE [db EXCEPT !.directory =
                                             WriteFile(@, export_fname, saved[1])]),
                          msg |-> FALSE]

(***************************************************************************)
(* Aggregator (aggregator.py)                                              *)
(***************************************************************************)
\* Aggregator.__init__ with a raw_data_getter
AggregatorInit(interval) ==
    [ running |-> FALSE, raw_data |-> None, interval |-> interval, thread |-> "unset" ]

\* topic.split('/')[0] + '/last_timestamp'
last_timestamp_id(topic) == <<topic[1], "last_timestamp">>

\* mutant: the first sample of each topic is taken
FlattenTopic_first(flat, topic, value) ==
    IF value # << >>
    THEN (last_timestamp_id(topic) :> Some(value[1].ts))
            @@ (topic :> Some(value[1].val)) @@ flat
    ELSE (last_timestamp_id(topic) :> None) @@ (topic :> None) @@ flat

\* the two assignments of the flattening loop for one topic: value[-1], or None
\* for both keys on IndexError
FlattenTopic(flat, topic, value) ==
    IF value # << >>
    THEN (last_timestamp_id(topic) :> Some(value[Len(value)].ts))
            @@ (topic :> Some(value[Len(value)].val)) @@ flat
    ELSE (last_timestamp_id(topic) :> None) @@ (topic :> None) @@ flat

\* for topic, value in self.raw_data.items(), from entry i on
RECURSIVE FlattenFrom(_, _, _)
FlattenFrom(view, i, flat) ==
    IF i > Len(view) THEN flat
    ELSE FlattenFrom(view, i + 1, FlattenTopic(flat, view[i].key, view[i].val))

\* flat_data of aggregate()
Flatten(view) == FlattenFrom(view, 1, << >>)

\* mutant: an exception of the cycle is not caught and ends the loop's thread
aggregate_uncaught(agg, t, fetched, timestamp, now, elapsed_more, disk_ok) ==
    IF fetched.raised
    THEN [agg |-> agg, t |-> t, outcome |-> "getter", crashed |-> TRUE]
    ELSE LET agg1 == [agg EXCEPT !.raw_data = Some(fetched.value)]
             r == add_point(t, timestamp, Flatten(fetched.value), now, elapsed_more, disk_ok)
         IN  IF r.raised
             THEN [agg |-> agg1, t |-> r.t, outcome |-> "add_point", crashed |-> TRUE]
             ELSE [agg |-> agg1, t |-> r.t, outcome |-> "ok", crashed |-> FALSE]

\* Aggregator.aggregate: `fetched` is what self.get_raw_data() did, [raised,
\* value]; every exception is caught and logged.  [agg, t, outcome, crashed]
aggregate(agg, t, fetched, timestamp, now, elapsed_more, disk_ok) ==
    IF fetched.raised
    THEN [agg |-> agg, t |-> t, outcome |-> "getter", crashed |-> FALSE]
    ELSE LET agg1 == [agg EXCEPT !.raw_data = Some(fetched.value)]
             r == add_point(t, timestamp, Flatten(fetched.value), now, elapsed_more, disk_ok)
         IN  [agg |-> agg1, t |-> r.t,
              outcome |-> IF r.raised THEN "add_point" ELSE "ok",
              crashed |-> FALSE]

\* mutant: start() spawns a loop whether or not one is running
start_unguarded(agg) ==
    [agg |-> [agg EXCEPT !.running = TRUE, !.thread = "alive"], spawned |-> TRUE]

\* Aggregator.start: [agg, spawned]
start(agg) ==
    IF ~agg.running
    THEN [agg |-> [agg EXCEPT !.running = TRUE, !.thread = "alive"], spawned |-> TRUE]
    ELSE [agg |-> agg, spawned |-> FALSE]

\* mutant: stop() clears the flag and returns without joining the thread
stop_nojoin(agg, is_alive) ==
    [agg |-> [agg EXCEPT !.running = FALSE],
     raised |-> agg.thread = "unset",
     joins |-> FALSE]

\* Aggregator.stop, up to the join: the flag is cleared; self.thread is read,
\* which raises AttributeError when start() was never called; a thread that
\* is alive is joined.  [agg, raised, joins]
stop(agg, is_alive) ==
    [agg |-> [agg EXCEPT !.running = FALSE],
     raised |-> agg.thread = "unset",
     joins |-> agg.thread # "unset" /\ is_alive]

\* the setter 'aggregator_refresh_rate' of SystemManager.initialize_webapp:
\* lambda interval: self.aggregator.set_interval(interval).  The class
\* Aggregator defines no set_interval, so the attribute lookup raises
\* AttributeError and nothing is assigned.  [agg, raised]
aggregator_refresh_rate(agg, interval) == [agg |-> agg, raised |-> TRUE]


(***************************************************************************)
(* State                                                                   *)
(***************************************************************************)
VARIABLES
    track,      \* the Track object and its two directories
    now,        \* the wall clock, in whole seconds
    clock,      \* the wall clock, fine grained: the instant of the last call
    disk_ok,    \* whether a file write succeeds at this moment
    faults,     \* how many times the disk has started failing
    ret,        \* what the last call did: operation, arguments and outcome
    h_first,    \* history: the key set of the first point the Track accepted
    h_run,      \* history of the recording run in progress (or just ended)
    h_replay,   \* history: the sequence load() read, and the calls of
                \* get_current since
    communicator,   \* the Communicator and its interfaces' buffers
    comm_ret,       \* what the last call on the Communicator did
    nmsgs,          \* how many messages the interfaces have received
    iface_pc,       \* where a caller of one interface's disconnect() is, and the
                    \* history of the interfaces whose disconnect() has returned
                    \* with no connect() called on them since
    processors,     \* the UnitConversion and the AngleOffset objects
    fused_view,     \* the dict {topic: samples} the preprocessors are applied to
    database,       \* the Database object: its registry, and the files of its
                    \* directory and of the chk/ subdirectory
    aggregator,     \* the Aggregator object
    agg_pc,         \* where the Aggregator's loop thread and a caller of stop() are,
                    \* how many loop threads are alive, how many times start()
                    \* was called since the last stop(), how long the loop last slept
    h_cycles        \* history: the outcome of every aggregate() cycle, in order

trackvars == <<track, now, clock, disk_ok, faults, ret, h_first, h_run, h_replay>>
commvars == <<communicator, comm_ret, nmsgs, iface_pc>>
aggvars == <<aggregator, agg_pc, h_cycles>>
extvars == <<processors, fused_view, database>>
livevars == <<commvars, aggvars, extvars>>
vars == <<trackvars, livevars>>

\* the key sets a caller passes to add_point: the flattened view of one unit with
\* one topic, and of two units
FieldsA == { <<"rm1", "gps", "lat">>, <<"rm1", "last_timestamp">> }
FieldsB == FieldsA \cup { <<"rm2", "wind", "speed">>, <<"rm2", "last_timestamp">> }
DataA == [k \in FieldsA |-> Some(0)]
DataB == [k \in FieldsB |-> Some(0)]
DataChoices == {DataA, DataB}

\* fractions a float represents exactly, within the validated range 0 < v <= 1
TrimFractions == { <<1, 4>>, <<1, 2>>, <<1, 1>> }

CommTrimFractions == { <<1, 8>>, <<1, 2>>, <<1, 1>> }

SaveModes == {"continuous", "on-demand"}

\* the history of a run: the points add_point accepted during it, the "-full"
\* and the ordinary checkpoint files written during it (name and content, in
\* order), the number of capacity evictions, the number of points held when it
\* started, whether start_run started it, and whether a write failed during it
RunInit(started, held) ==
    [ points |-> << >>, full |-> << >>, chk |-> << >>, evictions |-> 0,
      held |-> held, started |-> started, failed |-> FALSE ]

FullWrites(log) ==
    SelectSeq(log, LAMBDA w : w.ok /\ w.dir = "chk" /\ w.name.specifier = "-full")

ChkWrites(log) ==
    SelectSeq(log, LAMBDA w : w.ok /\ w.dir = "chk" /\ w.name.specifier = "")

OutWrites(log) == SelectSeq(log, LAMBDA w : w.ok /\ w.dir = "out")

\* the files of a log, as the directory holds them
RECURSIVE Files(_)
Files(log) ==
    IF log = << >> THEN << >>
    ELSE <<[name |-> Head(log).name, content |-> Head(log).content]>>
             \o Files(Tail(log))

\* the concatenation of the contents of a sequence of files
RECURSIVE Concat(_)
Concat(files) ==
    IF files = << >> THEN << >> ELSE Head(files).content \o Concat(Tail(files))

ReplayInit == [loaded |-> None, calls |-> 0]

AnyFailed(log) == \E i \in 1..Len(log) : ~log[i].ok

Call(t) == [t EXCEPT !.io_log = << >>]

\* what a call did: the operation, whether it raised, whether add_point took the
\* capacity branch, whether start_run / end_run only logged its warning, and the
\* key set passed to add_point
Ret(op, raised, evicted, noop, fields) ==
    [op |-> op, raised |-> raised, evicted |-> evicted, noop |-> noop,
     fields |-> fields, value |-> << >>]

\* what a call of get_current did: whether it raised, and the data_points of the
\* Track it returned
RetValue(op, raised, value) ==
    [op |-> op, raised |-> raised, evicted |-> FALSE, noop |-> FALSE,
     fields |-> {}, value |-> value]

Topics == {T_lat, T_long, T_wind, T_roll}

\* the interfaces Communicator.add_interfaces builds from {SerialInterface:
\* [{name: 's1', ...}, {name: 's2', ...}]}: two interfaces that share a topic;
\* T_roll is configured on neither
Interfaces ==
    << [key |-> "SerialInterface_s1", val |-> InterfaceInit(<<T_lat>>)],
       [key |-> "SerialInterface_s2", val |-> InterfaceInit(<<T_lat, T_long, T_wind>>)] >>

\* the reading the n-th message carries
Reading(n) == 450 + n

\* the preprocessors and the Database as constructed over an empty directory,
\* nothing received
ExtIdle ==
    /\ processors = [uc |-> UnitConversionInit, ao |-> AngleOffsetInit,
                     h_seen |-> << >>]
    /\ fused_view = << >>
    /\ database = DatabaseInit

CommRet(op, before, value) == [op |-> op, before |-> before, value |-> value]

\* the Communicator and the Aggregator as constructed, nothing started
LiveInit(trim_fraction) ==
    /\ communicator = CommunicatorInit(Interfaces, MaxValues, trim_fraction)
    /\ comm_ret = CommRet("init", << >>, << >>)
    /\ nmsgs = 0
    /\ iface_pc = [disconnect |-> 0, h_returned |-> {}]
    /\ aggregator = AggregatorInit(1)
    /\ agg_pc = [loop |-> "none", stop |-> "idle", live |-> 0, starts |-> 0,
                 slept |-> None]
    /\ h_cycles = << >>
    /\ ExtIdle

LiveIdle == LiveInit(<<1, 2>>)

\* the Track as SystemManager.initialize_common_components builds it: no field
\* names, save_mode overwritten with the configured default mode
InitManaged ==
    /\ \E sm \in SaveModes, tf \in TrimFractions :
           track = TrackInit(None, "live", sm, tf)
    /\ now = 0
    /\ clock = 0
    /\ disk_ok = TRUE
    /\ faults = 0
    /\ ret = Ret("init", FALSE, FALSE, FALSE, {})
    /\ h_first = None
    /\ h_run = RunInit(FALSE, 0)
    /\ h_replay = ReplayInit
    /\ LiveIdle

\* the histories after a call of add_point: whether it added the point, the
\* Track after it, the point, and whether the capacity branch ran
FirstAfter(added, data) ==
    IF h_first = None /\ added THEN Some(DOMAIN data) ELSE h_first

RunAfter(added, t1, point, evicted) ==
    IF ~added \/ track.save_mode # "continuous" THEN h_run
    ELSE [h_run EXCEPT
            !.points = Append(@, point),
            !.full = @ \o Files(FullWrites(t1.io_log)),
            !.chk = @ \o Files(ChkWrites(t1.io_log)),
            !.evictions = IF evicted THEN @ + 1 ELSE @,
            !.failed = @ \/ AnyFailed(t1.io_log)]

\* a caller calls add_point(datetime.now(), data), data among `choices`, at most
\* `limit` times
AddPointOf(choices, limit) ==
    \E data \in choices, elapsed_more \in BOOLEAN :
        LET r == add_point(Call(track), clock + 1, data, now, elapsed_more, disk_ok)
            evicted == ~r.raised /\ Len(track.data_points) > MaxDatapoints
        IN  /\ clock < limit
            /\ clock' = clock + 1
            /\ track' = r.t
            /\ ret' = Ret("add_point", r.raised, evicted, FALSE, DOMAIN data)
            /\ h_first' = FirstAfter(~r.raised, data)
            /\ h_run' = RunAfter(~r.raised, r.t, DataPoint(clock + 1, data), evicted)
            /\ UNCHANGED livevars
            /\ UNCHANGED <<now, disk_ok, faults, h_replay>>

\* the Aggregator's add_point: the fused view has a fixed topic set
AddPoint == AddPointOf({DataA}, MaxPoints)

\* the operator starts a recording (setter start_save)
StartRun ==
    /\ track' = start_run(Call(track))
    /\ ret' = Ret("start_run", FALSE, FALSE, track.save_mode # "on-demand", {})
    /\ h_run' = IF track.save_mode = "on-demand"
                THEN RunInit(TRUE, Len(track.data_points)) ELSE h_run
    /\ UNCHANGED livevars
    /\ UNCHANGED <<now, clock, disk_ok, faults, h_first, h_replay>>

\* the operator stops the recording (setter stop_save)
EndRun ==
    LET t1 == end_run(Call(track), now, disk_ok)
    IN  /\ track' = t1
        /\ ret' = Ret("end_run", FALSE, FALSE, track.save_mode = "on-demand", {})
        /\ h_run' = [h_run EXCEPT !.failed = @ \/ AnyFailed(t1.io_log)]
        /\ UNCHANGED livevars
        /\ UNCHANGED <<now, clock, disk_ok, faults, h_first, h_replay>>

\* a second of wall-clock time passes
Tick ==
    /\ now < MaxTime
    /\ now' = now + 1
    /\ UNCHANGED livevars
    /\ UNCHANGED <<track, clock, disk_ok, faults, ret, h_first, h_run, h_replay>>

\* the disk starts failing
DiskFail ==
    /\ disk_ok /\ faults < MaxFaults
    /\ disk_ok' = FALSE
    /\ faults' = faults + 1
    /\ UNCHANGED livevars
    /\ UNCHANGED <<track, now, clock, ret, h_first, h_run, h_replay>>

\* the disk recovers
DiskRecover ==
    /\ ~disk_ok
    /\ disk_ok' = TRUE
    /\ UNCHANGED livevars
    /\ UNCHANGED <<track, now, clock, faults, ret, h_first, h_run, h_replay>>

\* the managed Track on a disk that works
Next == AddPoint \/ StartRun \/ EndRun \/ Tick

Spec == InitManaged /\ [][Next]_vars

\* the managed Track on a disk that may fail
NextFaulty == AddPoint \/ StartRun \/ EndRun \/ Tick \/ DiskFail \/ DiskRecover

SpecFaulty == InitManaged /\ [][NextFaulty]_vars

\* a Track built with or without field names, fed by callers whose key sets vary
InitFields ==
    /\ \E fn \in {None, Some(FieldsA)}, sm \in SaveModes :
           track = TrackInit(fn, "live", sm, <<1, 2>>)
    /\ now = 0
    /\ clock = 0
    /\ disk_ok = TRUE
    /\ faults = 0
    /\ ret = Ret("init", FALSE, FALSE, FALSE, {})
    /\ h_first = None
    /\ h_run = RunInit(FALSE, 0)
    /\ h_replay = ReplayInit
    /\ LiveIdle

AddPointAny == AddPointOf(DataChoices, MaxPoints)

NextFields == AddPointAny \/ StartRun \/ EndRun

SpecFields == InitFields /\ [][NextFields]_vars

\* a Track recording from construction, fed faster than once a second
InitBurst ==
    /\ track = TrackInit(None, "live", "continuous", <<1, 2>>)
    /\ now = 0
    /\ clock = 0
    /\ disk_ok = TRUE
    /\ faults = 0
    /\ ret = Ret("init", FALSE, FALSE, FALSE, {})
    /\ h_first = None
    /\ h_run = RunInit(FALSE, 0)
    /\ h_replay = ReplayInit
    /\ LiveIdle

AddPointBurst == AddPointOf({DataA}, MaxBurst)

NextBurst == AddPointBurst \/ Tick

SpecBurst == InitBurst /\ [][NextBurst]_vars


\* a Track that replays a file: built in either mode, then loaded once (as
\* SystemManager.initialize_common_components and Database.export_track do),
\* then polled with get_current
InitReplay ==
    /\ \E m \in {"live", "replay"} : track = TrackInit(None, m, "continuous", <<1, 2>>)
    /\ now = 0
    /\ clock = 0
    /\ disk_ok = TRUE
    /\ faults = 0
    /\ ret = Ret("init", FALSE, FALSE, FALSE, {})
    /\ h_first = None
    /\ h_run = RunInit(FALSE, 0)
    /\ h_replay = ReplayInit
    /\ LiveIdle

\* the track files on disk: up to MaxLoad points, timestamps increasing
RECURSIVE TrackFiles(_)
TrackFiles(n) ==
    IF n = 0 THEN { << >> }
    ELSE TrackFiles(n - 1) \cup
         { Append(f, DataPoint(n, d)) : f \in { g \in TrackFiles(n - 1) : Len(g) = n - 1 },
                                        d \in DataChoices }

Load ==
    \E content \in TrackFiles(MaxLoad) :
        /\ h_replay.loaded = None
        /\ track' = load(Call(track), content)
        /\ ret' = Ret("load", FALSE, FALSE, FALSE, {})
        /\ h_replay' = [loaded |-> Some(content), calls |-> 0]
        /\ UNCHANGED livevars
        /\ UNCHANGED <<now, clock, disk_ok, faults, h_first, h_run>>

\* a poll of the getter 'database': self.track.get_current()
GetCurrent ==
    LET r == get_current(Call(track))
    IN  /\ h_replay.calls < MaxCalls
        /\ track' = r.t
        /\ ret' = RetValue("get_current", r.raised, r.value)
        /\ h_replay' = [h_replay EXCEPT !.calls = @ + 1]
        /\ UNCHANGED livevars
        /\ UNCHANGED <<now, clock, disk_ok, faults, h_first, h_run>>

NextReplay == Load \/ GetCurrent

SpecReplay == InitReplay /\ [][NextReplay]_vars

(***************************************************************************)
(* The JSON track file: export_to_json then Track.load                     *)
(***************************************************************************)
\* Python values: kind is the type, n the number or the instant, s the text
PyInt(n) == [kind |-> "int", n |-> n, s |-> ""]
PyStr(s) == [kind |-> "str", n |-> 0, s |-> s]
PyNone == [kind |-> "NoneType", n |-> 0, s |-> ""]
PyDatetime(t) == [kind |-> "datetime", n |-> t, s |-> ""]

\* str(datetime): the text "YYYY-MM-DD HH:MM:SS[.ffffff]" of the instant
str(v) == [kind |-> "str", n |-> v.n, s |-> "%Y-%m-%d %H:%M:%S"]

\* mutant: the text is kept as it is
fromisoformat_text(v) == v

\* datetime.fromisoformat of a text str(datetime) wrote
fromisoformat(v) == [kind |-> "datetime", n |-> v.n, s |-> ""]

\* JSON values
JNumber(n) == [type |-> "number", n |-> n, s |-> ""]
JString(v) == [type |-> "string", n |-> v.n, s |-> v.s]
JNull == [type |-> "null", n |-> 0, s |-> ""]

\* json.dump(..., default=str) of one value: what the encoder does not know (a
\* datetime) is written as the string default returns
json_dump_value(v) ==
    IF v.kind = "int" THEN JNumber(v.n)
    ELSE IF v.kind = "str" THEN JString(v)
    ELSE IF v.kind = "NoneType" THEN JNull
    ELSE JString(str(v))

\* json.load of one value
json_load_value(j) ==
    IF j.type = "number" THEN PyInt(j.n)
    ELSE IF j.type = "string" THEN [kind |-> "str", n |-> j.n, s |-> j.s]
    ELSE PyNone

\* json.dump([asdict(dp) for dp in data_points_to_export], default=str)
json_dump(points) ==
    [i \in 1..Len(points) |->
        [ timestamp  |-> json_dump_value(points[i].timestamp),
          input_data |-> [k \in DOMAIN points[i].input_data |->
                             json_dump_value(points[i].input_data[k])] ]]

\* json.load(f)
json_load(doc) ==
    [i \in 1..Len(doc) |->
        [ timestamp  |-> json_load_value(doc[i].timestamp),
          input_data |-> [k \in DOMAIN doc[i].input_data |->
                             json_load_value(doc[i].input_data[k])] ]]

\* Track.load of a file: only dp["timestamp"] is parsed back into a datetime
load_json(t, doc) ==
    LET data == json_load(doc)
    IN  load(t, [i \in 1..Len(data) |->
                    DataPoint(fromisoformat(data[i].timestamp), data[i].input_data)])

\* the flattened records Aggregator.aggregate passes to add_point: a reading,
\* and the unit's last_timestamp, the datetime key of the last sample or None
AggregatedData ==
    { d \in [ FieldsA -> { PyInt(0), PyInt(1), PyStr("ok"), PyNone, PyDatetime(1) } ] :
        /\ d[<<"rm1", "last_timestamp">>].kind \in {"datetime", "NoneType"}
        /\ d[<<"rm1", "gps", "lat">>].kind # "datetime" }

ExportName == FileName(0, "export")

InitJson ==
    /\ track = TrackInit(None, "live", "continuous", <<1, 2>>)
    /\ now = 0
    /\ clock = 0
    /\ disk_ok = TRUE
    /\ faults = 0
    /\ ret = Ret("init", FALSE, FALSE, FALSE, {})
    /\ h_first = None
    /\ h_run = RunInit(FALSE, 0)
    /\ h_replay = ReplayInit
    /\ LiveIdle

\* a point reaches the Track before it is exported
JsonAddPoint ==
    \E d \in AggregatedData :
        /\ h_replay.loaded = None
        /\ Len(track.data_points) < MaxExported
        /\ now' = now + 1
        /\ track' = [track EXCEPT !.data_points =
                        Append(@, DataPoint(PyDatetime(now + 1), d))]
        /\ ret' = Ret("add_point", FALSE, FALSE, FALSE, DOMAIN d)
        /\ UNCHANGED livevars
        /\ UNCHANGED <<clock, disk_ok, faults, h_first, h_run, h_replay>>

\* track.save(file_format='json')
JsonSave ==
    /\ track' = [track EXCEPT !.out_dir =
                    WriteFile(@, ExportName,
                              json_dump(export_to_json(track.data_points, None)))]
    /\ h_replay' = [loaded |-> Some(track.data_points), calls |-> 0]
    /\ ret' = Ret("save", FALSE, FALSE, FALSE, {})
    /\ UNCHANGED livevars
    /\ UNCHANGED <<now, clock, disk_ok, faults, h_first, h_run>>

\* Track(...).load(file): a new Track reads the exported file
JsonLoad ==
    \E i \in 1..Len(track.out_dir) :
        /\ track' = load_json([TrackInit(None, "live", "continuous", <<1, 2>>)
                                  EXCEPT !.out_dir = track.out_dir],
                              track.out_dir[i].content)
        /\ ret' = Ret("load", FALSE, FALSE, FALSE, {})
        /\ h_replay' = [h_replay EXCEPT !.calls = 1]
        /\ UNCHANGED livevars
        /\ UNCHANGED <<now, clock, disk_ok, faults, h_first, h_run>>

NextJson == JsonAddPoint \/ JsonSave \/ JsonLoad

SpecJson == InitJson /\ [][NextJson]_vars

(***************************************************************************)
(* A Track constructed with default arguments                              *)
(***************************************************************************)
\* mutant: the constructor's default save mode is on-demand
DefaultSaveMode_on_demand == "on-demand"

\* the default of the save_mode parameter of Track.__init__, which is also the
\* default_mode of SystemManager's DEFAULT_CONFIG
DefaultSaveMode == "continuous"

\* Track(): every argument at its default
InitDefault ==
    /\ track = TrackInit(None, "live", DefaultSaveMode, <<1, 2>>)
    /\ now = 0
    /\ clock = 0
    /\ disk_ok = TRUE
    /\ faults = 0
    /\ ret = Ret("init", FALSE, FALSE, FALSE, {})
    /\ h_first = None
    /\ h_run = RunInit(FALSE, 0)
    /\ h_replay = ReplayInit
    /\ LiveIdle

\* the Track is fed and its run may be ended; start_run is not called
NextDefault == AddPoint \/ EndRun \/ Tick

SpecDefault == InitDefault /\ [][NextDefault]_vars

(***************************************************************************)
(* The Communicator and its interfaces                                     *)
(***************************************************************************)
\* the Track, constructed and left alone
TrackIdle(field_names) ==
    /\ track = TrackInit(field_names, "live", "continuous", <<1, 2>>)
    /\ now = 0
    /\ clock = 0
    /\ disk_ok = TRUE
    /\ faults = 0
    /\ ret = Ret("init", FALSE, FALSE, FALSE, {})
    /\ h_first = None
    /\ h_run = RunInit(FALSE, 0)
    /\ h_replay = ReplayInit

InitComm ==
    /\ TrackIdle(None)
    /\ \E tf \in CommTrimFractions : LiveInit(tf)

\* a reader thread of an interface delivers a message: on_message_callback(topic,
\* data) stamps it with datetime.now(), which may not have advanced since the
\* last event
OnMessageOf(receivers, advances, limit) ==
    \E i \in receivers, topic \in Topics, adv \in advances :
        /\ nmsgs < limit
        /\ nmsgs' = nmsgs + 1
        /\ clock' = clock + adv
        /\ communicator' = [communicator EXCEPT !.interfaces[i].val =
               on_message_callback(@, topic, Reading(nmsgs + 1), clock + adv)]
        /\ comm_ret' = CommRet("on_message", << >>, << >>)
        /\ UNCHANGED <<track, now, disk_ok, faults, ret, h_first, h_run, h_replay>>
        /\ UNCHANGED <<iface_pc, aggvars, extvars>>

OnMessage == OnMessageOf(1..Len(communicator.interfaces), {0, 1}, MaxMsgs)

\* a caller reads the property Communicator.raw_data
ReadRawData ==
    LET r == raw_data(communicator)
    IN  /\ communicator' = r.comm
        /\ comm_ret' = CommRet("raw_data", communicator.interfaces, r.value)
        /\ UNCHANGED <<trackvars, nmsgs, iface_pc, aggvars, extvars>>

NextComm == OnMessage \/ ReadRawData

SpecComm == InitComm /\ [][NextComm]_vars

(***************************************************************************)
(* The Aggregator over the Communicator (live mode)                        *)
(***************************************************************************)
\* the key set of the fused view when only configured topics have arrived
FieldsLive ==
    { T_lat, T_long, T_wind, <<"rm1", "last_timestamp">>, <<"rm2", "last_timestamp">> }

\* SystemManager.start_live: the getter is lambda: self.communicator.raw_data;
\* the Aggregator accepts any Track as its database
InitLive ==
    /\ \E fn \in {None, Some(FieldsLive)} : TrackIdle(fn)
    /\ LiveInit(<<1, 2>>)

\* the second interface receives a message whose time stamp is later than every
\* earlier one; the first link is silent
OnMessageLive == OnMessageOf({2}, {1}, MaxMsgsLive)

\* Aggregator.start(), called at most `limit` times between two calls of stop()
AggStartOf(limit) ==
    LET r == start(aggregator)
    IN  /\ agg_pc.stop = "idle"
        /\ agg_pc.starts < limit
        /\ aggregator' = r.agg
        /\ agg_pc' = IF r.spawned
                      THEN [agg_pc EXCEPT !.loop = "test", !.live = @ + 1,
                                          !.starts = @ + 1]
                      ELSE [agg_pc EXCEPT !.starts = @ + 1]
        /\ UNCHANGED <<trackvars, commvars, extvars, h_cycles>>

\* SystemManager.initialize_aggregator: start() once
AggStart == AggStartOf(1)

\* _run_loop: while self.running, on entry
LoopTest ==
    /\ agg_pc.loop = "test"
    /\ agg_pc' = IF aggregator.running
                  THEN [agg_pc EXCEPT !.loop = "aggregate"]
                  ELSE [agg_pc EXCEPT !.loop = "done", !.live = @ - 1]
    /\ UNCHANGED <<trackvars, commvars, extvars, aggregator, h_cycles>>

\* _run_loop: self.aggregate(); the getter reads Communicator.raw_data, which
\* returns the fused view or raises
LoopAggregate ==
    /\ agg_pc.loop = "aggregate"
    /\ Len(h_cycles) < MaxCycles
    /\ \E fails \in BOOLEAN, k \in 0..(Len(communicator.interfaces) - 1),
          elapsed_more \in BOOLEAN :
      \E read \in { raw_data(communicator) } :
        \E fetched \in { IF fails THEN [raised |-> TRUE, value |-> << >>]
                          ELSE [raised |-> FALSE, value |-> read.value] } :
          \E r \in { aggregate(aggregator, Call(track), fetched, clock + 1,
                                now, elapsed_more, disk_ok) },
             flat \in { Flatten(fetched.value) } :
            \E added \in { r.outcome = "ok" } :
              \E evicted \in { added /\ Len(track.data_points) > MaxDatapoints } :
                /\ clock' = clock + 1
                /\ communicator' = IF fails THEN raw_data_raises(communicator, k)
                                    ELSE read.comm
                /\ comm_ret' = CommRet(IF fails THEN "raw_data raised" ELSE "raw_data",
                                       communicator.interfaces, fetched.value)
                /\ aggregator' = r.agg
                /\ track' = r.t
                /\ agg_pc' = IF r.crashed
                              THEN [agg_pc EXCEPT !.loop = "done", !.live = @ - 1]
                              ELSE [agg_pc EXCEPT !.loop = "sleep"]
                /\ h_cycles' = Append(h_cycles, r.outcome)
                /\ ret' = Ret("aggregate", ~added, evicted, FALSE,
                              IF fails THEN {} ELSE DOMAIN flat)
                /\ h_first' = FirstAfter(added, flat)
                /\ h_run' = RunAfter(added, r.t, DataPoint(clock + 1, flat), evicted)
                /\ UNCHANGED <<now, disk_ok, faults, h_replay, nmsgs, iface_pc, extvars>>

\* _run_loop: time.sleep(self.interval) returns and the loop tests self.running
LoopSleep ==
    /\ agg_pc.loop = "sleep"
    /\ agg_pc' = IF aggregator.running
                  THEN [agg_pc EXCEPT !.loop = "aggregate",
                                      !.slept = Some(aggregator.interval)]
                  ELSE [agg_pc EXCEPT !.loop = "done", !.live = @ - 1,
                                      !.slept = Some(aggregator.interval)]
    /\ UNCHANGED <<trackvars, commvars, extvars, aggregator, h_cycles>>

\* Aggregator.stop(), up to the join
AggStopBegin ==
    LET r == stop(aggregator, agg_pc.loop \in {"test", "aggregate", "sleep"})
    IN  /\ agg_pc.stop = "idle"
        /\ aggregator' = r.agg
        /\ agg_pc' = IF r.joins THEN [agg_pc EXCEPT !.stop = "joining", !.starts = 0]
                      ELSE [agg_pc EXCEPT !.starts = 0]
        /\ UNCHANGED <<trackvars, commvars, extvars, h_cycles>>

\* Aggregator.stop(): self.thread.join() returns
AggStopJoin ==
    /\ agg_pc.stop = "joining"
    /\ agg_pc.loop = "done"
    /\ agg_pc' = [agg_pc EXCEPT !.stop = "idle"]
    /\ UNCHANGED <<trackvars, commvars, extvars, aggregator, h_cycles>>

NextLive ==
    OnMessageLive \/ AggStart \/ LoopTest \/ LoopAggregate \/ LoopSleep
        \/ AggStopBegin \/ AggStopJoin

SpecLive == InitLive /\ [][NextLive]_vars

(***************************************************************************)
(* The life cycle of the Aggregator: start, stop, refresh rate             *)
(***************************************************************************)
\* the sampling intervals a consumer asks for, in seconds
Intervals == {1, 2}

\* Aggregator.start(), possibly again while the loop runs
AggStartAgain == AggStartOf(MaxStarts)

\* the consumer invokes the setter aggregator_refresh_rate(x)
SetInterval ==
    \E x \in Intervals :
        LET r == aggregator_refresh_rate(aggregator, x)
        IN  /\ aggregator' = r.agg
            /\ ret' = RetValue("aggregator_refresh_rate", r.raised, <<x>>)
            /\ UNCHANGED <<track, now, clock, disk_ok, faults, h_first, h_run, h_replay>>
            /\ UNCHANGED <<commvars, extvars, agg_pc, h_cycles>>

NextLifecycle ==
    AggStartAgain \/ LoopTest \/ LoopAggregate \/ LoopSleep
        \/ AggStopBegin \/ AggStopJoin \/ SetInterval

SpecLifecycle == InitLive /\ [][NextLifecycle]_vars

(***************************************************************************)
(* The link: the Communicator's connect, disconnect, publish and refresh   *)
(* as one step each, and one interface's disconnect() step by step against *)
(* its reader thread                                                       *)
(***************************************************************************)
\* Communicator() with no interface, or with the two serial interfaces
InitLink ==
    /\ TrackIdle(None)
    /\ \E interfaces \in {<< >>, Interfaces} :
           communicator = CommunicatorInit(interfaces, MaxValues, <<1, 2>>)
    /\ comm_ret = CommRet("init", << >>, << >>)
    /\ nmsgs = 0
    /\ iface_pc = [disconnect |-> 0, h_returned |-> {}]
    /\ aggregator = AggregatorInit(1)
    /\ agg_pc = [loop |-> "none", stop |-> "idle", live |-> 0, starts |-> 0,
                 slept |-> None]
    /\ h_cycles = << >>
    /\ ExtIdle

\* the interfaces named in calls of `op` that satisfy `which`
Called(calls, op, which(_)) ==
    { calls[j].name : j \in { k \in 1..Len(calls) : calls[k].op = op /\ which(calls[k]) } }

\* a Communicator operation returned r: the state after it and the record of
\* the call
LinkAfter(op, args, r) ==
    /\ communicator' = r.comm
    /\ comm_ret' = CommRet(op, communicator.interfaces,
                           [args |-> args, raised |-> r.raised, calls |-> r.calls,
                            warnings |-> r.warnings])
    /\ iface_pc' = [iface_pc EXCEPT !.h_returned =
           (@ \cup Called(r.calls, "disconnect", LAMBDA c : ~c.raised))
              \ Called(r.calls, "connect", LAMBDA c : TRUE)]
    /\ UNCHANGED <<trackvars, nmsgs, aggvars, extvars>>

\* the names publish() is given: none, one interface, or a list with a name
\* that is not registered
NameLists ==
    { None, Some(<<"SerialInterface_s2">>),
      Some(<<"MQTTInterface", "SerialInterface_s1", "SerialInterface_s2">>) }

Connect ==
    /\ iface_pc.disconnect = 0
    /\ \E fails \in SUBSET DictKeys(communicator.interfaces) :
           LinkAfter("connect", << >>, connect(communicator, fails))

Disconnect ==
    /\ iface_pc.disconnect = 0
    /\ \E fails \in SUBSET DictKeys(communicator.interfaces) :
           LinkAfter("disconnect", << >>, disconnect(communicator, fails))

Publish ==
    /\ iface_pc.disconnect = 0
    /\ \E interfaces \in NameLists, fails \in SUBSET DictKeys(communicator.interfaces) :
           LinkAfter("publish", <<interfaces>>,
                     publish(communicator, T_lat, interfaces, fails))

Refresh ==
    /\ iface_pc.disconnect = 0
    /\ \E force_reconnect \in BOOLEAN,
          fails_disconnect \in SUBSET DictKeys(communicator.interfaces),
          fails_connect \in SUBSET DictKeys(communicator.interfaces) :
           /\ ~force_reconnect => fails_disconnect = {}
           /\ LinkAfter("refresh", <<force_reconnect>>,
                        refresh(communicator, force_reconnect, fails_disconnect,
                                fails_connect))

\* the reader thread of an interface tests `while self.running`
ReaderTest ==
    \E i \in 1..Len(communicator.interfaces) :
        /\ communicator.interfaces[i].val.thread = "test"
        /\ communicator' = [communicator EXCEPT !.interfaces[i].val.thread =
               IF communicator.interfaces[i].val.running THEN "read" ELSE "dead"]
        /\ comm_ret' = CommRet("reader", << >>, << >>)
        /\ UNCHANGED <<trackvars, nmsgs, iface_pc, aggvars, extvars>>

\* the reader thread of an interface ends an iteration: readline() timed out, or
\* gave a line whose topic goes to on_message_callback
ReaderRead ==
    \E i \in 1..Len(communicator.interfaces), line \in BOOLEAN, topic \in {T_lat} :
        /\ communicator.interfaces[i].val.thread = "read"
        /\ line => nmsgs < MaxFrames
        /\ nmsgs' = IF line THEN nmsgs + 1 ELSE nmsgs
        /\ clock' = IF line THEN clock + 1 ELSE clock
        /\ communicator' = [communicator EXCEPT !.interfaces[i].val =
               [(IF line THEN on_message_callback(@, topic, Reading(nmsgs + 1), clock + 1)
                 ELSE @) EXCEPT !.thread = "test"]]
        /\ comm_ret' = CommRet("reader", << >>, << >>)
        /\ UNCHANGED <<track, now, disk_ok, faults, ret, h_first, h_run, h_replay>>
        /\ UNCHANGED <<iface_pc, aggvars, extvars>>

\* a caller enters disconnect() of one interface: `if self.running:
\* self._loop_stop()` clears self.running and waits in join()
IfaceDisconnectBegin ==
    \E i \in 1..Len(communicator.interfaces) :
        /\ iface_pc.disconnect = 0
        /\ communicator' = [communicator EXCEPT !.interfaces[i].val =
               IF @.running THEN loop_stop(@) ELSE @]
        /\ iface_pc' = [iface_pc EXCEPT !.disconnect = i]
        /\ comm_ret' = CommRet("iface_disconnect", communicator.interfaces, << >>)
        /\ UNCHANGED <<trackvars, nmsgs, aggvars, extvars>>

\* join() lets the caller through, the connection is closed and disconnect()
\* returns, or raises what close() raised
IfaceDisconnectEnd ==
    \E i \in 1..Len(communicator.interfaces), fails \in BOOLEAN :
        /\ iface_pc.disconnect = i
        /\ joinable(communicator.interfaces[i].val)
        /\ \E r \in { close(communicator.interfaces[i].val, fails) } :
            /\ fails => r.raised
            /\ communicator' = [communicator EXCEPT !.interfaces[i].val = r.iface]
            /\ iface_pc' = [disconnect |-> 0,
                            h_returned |-> IF r.raised THEN iface_pc.h_returned
                                           ELSE iface_pc.h_returned
                                                  \cup {communicator.interfaces[i].key}]
            /\ comm_ret' = CommRet("iface_disconnect", << >>,
                                   [args |-> <<i>>, raised |-> r.raised,
                                    calls |-> << >>, warnings |-> << >>])
        /\ UNCHANGED <<trackvars, nmsgs, aggvars, extvars>>

NextLink ==
    Connect \/ Disconnect \/ Publish \/ Refresh \/ ReaderTest \/ ReaderRead
        \/ IfaceDisconnectBegin \/ IfaceDisconnectEnd

SpecLink == InitLink /\ [][NextLink]_vars

(***************************************************************************)
(* The read loop of one SerialInterface, line by line                      *)
(***************************************************************************)
\* what readline() gives in one iteration: nothing before the timeout, a line
\* with one JSON object, a line with two objects jammed together, a line that
\* is not JSON (JSONDecodeError), bytes that are not UTF-8 (UnicodeDecodeError
\* in decode), or a SerialException in readline
LineKinds == {"timeout", "object", "jammed", "malformed", "undecodable", "read_error"}

\* the kinds that raise in `line = self.serial_conn.readline().decode(...)`,
\* before `line` is assigned
RaisesBeforeLine(kind) == kind \in {"undecodable", "read_error"}

\* the handler of the outer try formats {line} into its warning: when no line
\* was ever assigned the name is unbound, the handler itself raises
\* UnboundLocalError and the exception leaves _run_loop
handler_raises(line_bound, kind) == RaisesBeforeLine(kind) /\ ~line_bound

\* one iteration of `while self.running` in _run_loop: the interface after it,
\* whether `line` is bound after it, and whether the thread is left by an
\* exception
run_loop_body(iface, line_bound, kind, n, ts) ==
    IF RaisesBeforeLine(kind)
    THEN [ iface |-> [iface EXCEPT !.thread =
                         IF handler_raises(line_bound, kind) THEN "dead" ELSE "test"],
           line_bound |-> line_bound,
           crashed |-> handler_raises(line_bound, kind) ]
    ELSE LET after ==
                 IF kind = "object"
                 THEN on_message_callback(iface, T_lat, Reading(n), ts)
                 ELSE IF kind = "jammed"
                 THEN on_message_callback(
                          on_message_callback(iface, T_lat, Reading(n), ts),
                          T_lat, Reading(n + 1), ts)
                 ELSE iface
         IN  [ iface |-> [after EXCEPT !.thread = "test"],
               line_bound |-> TRUE,
               crashed |-> FALSE ]

\* one serial interface, connected, its reader thread started
InitReader ==
    /\ TrackIdle(None)
    /\ communicator = CommunicatorInit(
           << [key |-> "SerialInterface_s1",
               val |-> iface_connect(InterfaceInit(<<T_lat>>), FALSE).iface] >>,
           MaxValues, <<1, 2>>)
    /\ comm_ret = CommRet("init", << >>, << >>)
    /\ nmsgs = 0
    /\ iface_pc = [line_bound |-> FALSE, crashed |-> FALSE]
    /\ aggregator = AggregatorInit(1)
    /\ agg_pc = [loop |-> "none", stop |-> "idle", live |-> 0, starts |-> 0,
                 slept |-> None]
    /\ h_cycles = << >>
    /\ ExtIdle

\* `while self.running`
LoopTest1 ==
    /\ communicator.interfaces[1].val.thread = "test"
    /\ communicator' = [communicator EXCEPT !.interfaces[1].val.thread =
           IF communicator.interfaces[1].val.running THEN "read" ELSE "dead"]
    /\ comm_ret' = CommRet("test", communicator.interfaces, << >>)
    /\ UNCHANGED <<trackvars, nmsgs, iface_pc, aggvars, extvars>>

\* the body of the loop, for what readline() gives
LoopBody ==
    \E kind \in LineKinds :
        /\ communicator.interfaces[1].val.thread = "read"
        /\ nmsgs < MaxLines
        /\ nmsgs' = nmsgs + 1
        /\ clock' = clock + 1
        /\ \E r \in { run_loop_body(communicator.interfaces[1].val,
                                    iface_pc.line_bound, kind, 2 * nmsgs, clock + 1) } :
              /\ communicator' = [communicator EXCEPT !.interfaces[1].val = r.iface]
              /\ iface_pc' = [line_bound |-> r.line_bound, crashed |-> r.crashed]
        /\ comm_ret' = CommRet("line", communicator.interfaces, [kind |-> kind])
        /\ UNCHANGED <<track, now, disk_ok, faults, ret, h_first, h_run, h_replay>>
        /\ UNCHANGED <<aggvars, extvars>>

\* _loop_stop clears self.running
LoopStop ==
    /\ communicator.interfaces[1].val.running
    /\ communicator' = [communicator EXCEPT !.interfaces[1].val = loop_stop(@)]
    /\ comm_ret' = CommRet("loop_stop", communicator.interfaces, << >>)
    /\ UNCHANGED <<trackvars, nmsgs, iface_pc, aggvars, extvars>>

NextReader == LoopTest1 \/ LoopBody \/ LoopStop

SpecReader == InitReader /\ [][NextReader]_vars

(***************************************************************************)
(* Two executions of Aggregator.aggregate, statement by statement          *)
(***************************************************************************)
\* the two threads that may execute aggregate(): the background loop and
\* another caller
Executions == {1, 2}

\* what self.get_raw_data() returns after n changes of the fused view
View(n) ==
    << [key |-> T_lat,
        val |-> IF n = 0 THEN << >> ELSE <<Sample(n, Reading(n))>>] >>

\* the locks created so far are 1..created; self._lock is the attribute, 0
\* before the first aggregate(); held is the set of locks some thread holds
LocksInit == [created |-> 0, self_lock |-> 0, held |-> {}]

\* self._lock = threading.Lock(), executed by every call of aggregate()
new_lock(locks) == [locks EXCEPT !.created = @ + 1, !.self_lock = locks.created + 1]

\* an execution is inside `with self._lock:`
InFetch(pc) == pc \in {"fetch", "release"}

InitRace ==
    /\ TrackIdle(None)
    /\ communicator = CommunicatorInit(Interfaces, MaxValues, <<1, 2>>)
    /\ comm_ret = CommRet("init", << >>, << >>)
    /\ nmsgs = 0
    /\ iface_pc = [disconnect |-> 0, h_returned |-> {}]
    /\ aggregator = AggregatorInit(1)
    /\ h_cycles = << >>
    /\ agg_pc = [pc |-> [e \in Executions |-> "idle"],
                 lock |-> [e \in Executions |-> 0],
                 fetched |-> [e \in Executions |-> None],
                 locks |-> LocksInit]
    /\ ExtIdle

\* the fused view changes: a sample arrives
ViewChanges ==
    /\ nmsgs < MaxViews
    /\ nmsgs' = nmsgs + 1
    /\ UNCHANGED <<trackvars, communicator, comm_ret, iface_pc, aggvars, extvars>>

\* timestamp = datetime.now(); self._lock = threading.Lock()
AggNewLock(e) ==
    /\ agg_pc.pc[e] = "idle"
    /\ Len(h_cycles) + Cardinality({ x \in Executions : agg_pc.pc[x] # "idle" })
          < MaxExecutions
    /\ agg_pc' = [agg_pc EXCEPT !.pc[e] = "with", !.locks = new_lock(@)]
    /\ UNCHANGED <<trackvars, commvars, aggregator, h_cycles, extvars>>

\* `with self._lock:` acquires the lock the attribute names now, once it is free
AggAcquire(e) ==
    /\ agg_pc.pc[e] = "with"
    /\ agg_pc.locks.self_lock \notin agg_pc.locks.held
    /\ agg_pc' = [agg_pc EXCEPT !.pc[e] = "fetch",
                                !.lock[e] = agg_pc.locks.self_lock,
                                !.locks.held = @ \cup {agg_pc.locks.self_lock}]
    /\ UNCHANGED <<trackvars, commvars, aggregator, h_cycles, extvars>>

\* self.raw_data = self.get_raw_data()
AggFetch(e) ==
    /\ agg_pc.pc[e] = "fetch"
    /\ aggregator' = [aggregator EXCEPT !.raw_data = Some(View(nmsgs))]
    /\ agg_pc' = [agg_pc EXCEPT !.pc[e] = "release", !.fetched[e] = Some(View(nmsgs))]
    /\ UNCHANGED <<trackvars, commvars, h_cycles, extvars>>

\* the end of the with block releases the lock that was acquired
AggRelease(e) ==
    /\ agg_pc.pc[e] = "release"
    /\ agg_pc' = [agg_pc EXCEPT !.pc[e] = "flatten",
                                !.locks.held = @ \ {agg_pc.lock[e]}]
    /\ UNCHANGED <<trackvars, commvars, aggregator, h_cycles, extvars>>

\* the flattening loop over self.raw_data, then self.database.add_point
AggAppend(e) ==
    /\ agg_pc.pc[e] = "flatten"
    /\ \E flat \in { Flatten(aggregator.raw_data[1]) } :
         \E r \in { add_point(Call(track), clock + 1, flat, now, FALSE, disk_ok) } :
            /\ track' = r.t
            /\ clock' = clock + 1
            /\ ret' = Ret("aggregate", r.raised, FALSE, FALSE, DOMAIN flat)
            /\ h_cycles' = Append(h_cycles, [execution |-> e,
                                             fetched |-> agg_pc.fetched[e][1],
                                             flat |-> flat])
    /\ agg_pc' = [agg_pc EXCEPT !.pc[e] = "idle", !.fetched[e] = None, !.lock[e] = 0]
    /\ UNCHANGED <<now, disk_ok, faults, h_first, h_run, h_replay>>
    /\ UNCHANGED <<commvars, aggregator, extvars>>

NextRace ==
    \/ ViewChanges
    \/ \E e \in Executions :
          AggNewLock(e) \/ AggAcquire(e) \/ AggFetch(e) \/ AggRelease(e) \/ AggAppend(e)

SpecRace == InitRace /\ [][NextRace]_vars

(***************************************************************************)
(* One append of the read loop against the trim of Communicator.raw_data,  *)
(* statement by statement.  The buffer of a topic is a list object: heap    *)
(* holds the list objects created so far, bound is the one that             *)
(* interface.raw_data[topic] names.                                        *)
(***************************************************************************)
\* the interface buffer of T_lat seen as the value of the list it names
WithBuffer(comm, list) ==
    [comm EXCEPT !.interfaces[1].val.raw_data = DictSet(@, T_lat, list)]

\* int(len(data_list) * self.trim_fraction)
trim_count(comm, data_list) ==
    IntFrac(Len(data_list), comm.trim_fraction[1], comm.trim_fraction[2])

InitTrim ==
    /\ TrackIdle(None)
    /\ communicator = CommunicatorInit(
           << [key |-> "SerialInterface_s1",
               val |-> iface_connect(InterfaceInit(<<T_lat>>), FALSE).iface] >>,
           MaxValues, <<1, 2>>)
    /\ comm_ret = CommRet("init", << >>, << >>)
    /\ nmsgs = 0
    /\ iface_pc = [ heap |-> << << >> >>, bound |-> 1,
                    append |-> [pc |-> "idle", list |-> 0, sample |-> << >>],
                    read |-> [pc |-> "idle", data_list |-> 0, slice |-> 0, reads |-> 0],
                    h_appended |-> {}, h_trimmed |-> {} ]
    /\ aggregator = AggregatorInit(1)
    /\ agg_pc = [loop |-> "none", stop |-> "idle", live |-> 0, starts |-> 0,
                 slept |-> None]
    /\ h_cycles = << >>
    /\ ExtIdle

\* on_message_callback: timestamp = datetime.now(), then self.raw_data[topic]
\* is evaluated: the list object the dict names now
AppendLoad ==
    /\ iface_pc.append.pc = "idle"
    /\ nmsgs < MaxAppends
    /\ nmsgs' = nmsgs + 1
    /\ clock' = clock + 1
    /\ iface_pc' = [iface_pc EXCEPT !.append =
           [pc |-> "append", list |-> iface_pc.bound,
            sample |-> <<Sample(clock + 1, Reading(nmsgs + 1))>>]]
    /\ comm_ret' = CommRet("append", << >>, << >>)
    /\ UNCHANGED <<track, now, disk_ok, faults, ret, h_first, h_run, h_replay>>
    /\ UNCHANGED <<communicator, aggvars, extvars>>

\* .append({timestamp: data}) on the list object that was evaluated
AppendStore ==
    /\ iface_pc.append.pc = "append"
    /\ \E heap \in { [iface_pc.heap EXCEPT ![iface_pc.append.list] =
                        Append(@, iface_pc.append.sample[1])] } :
          /\ iface_pc' = [iface_pc EXCEPT
                 !.heap = heap,
                 !.append = [pc |-> "idle", list |-> 0, sample |-> << >>],
                 !.h_appended = @ \cup {iface_pc.append.sample[1]}]
          /\ communicator' = WithBuffer(communicator, heap[iface_pc.bound])
    /\ comm_ret' = CommRet("append", << >>, << >>)
    /\ UNCHANGED <<trackvars, nmsgs, aggvars, extvars>>

\* raw_data: `for topic, data_list in interface.raw_data.items()` binds
\* data_list to the list object of the topic
ReadItems ==
    /\ iface_pc.read.pc = "idle"
    /\ iface_pc.read.reads < MaxReads
    /\ iface_pc' = [iface_pc EXCEPT !.read.pc = "test", !.read.data_list = iface_pc.bound]
    /\ comm_ret' = CommRet("read", << >>, << >>)
    /\ UNCHANGED <<trackvars, communicator, nmsgs, aggvars, extvars>>

\* `if len(data_list) > self.max_values:` and, when it holds, the right-hand
\* side data_list[trim_count:], a new list object
ReadSlice ==
    /\ iface_pc.read.pc = "test"
    /\ \E data_list \in { iface_pc.heap[iface_pc.read.data_list] } :
          iface_pc' =
              IF Len(data_list) > communicator.max_values
              THEN [iface_pc EXCEPT
                      !.heap = Append(@, Drop(data_list, trim_count(communicator, data_list))),
                      !.read.pc = "store",
                      !.read.slice = Len(iface_pc.heap) + 1,
                      !.h_trimmed = @ \cup
                          { data_list[j] : j \in 1..trim_count(communicator, data_list) }]
              ELSE [iface_pc EXCEPT !.read.pc = "extend"]
    /\ comm_ret' = CommRet("read", << >>, << >>)
    /\ UNCHANGED <<trackvars, communicator, nmsgs, aggvars, extvars>>

\* interface.raw_data[topic] = <the slice>
ReadStore ==
    /\ iface_pc.read.pc = "store"
    /\ iface_pc' = [iface_pc EXCEPT !.bound = iface_pc.read.slice, !.read.pc = "extend"]
    /\ communicator' = WithBuffer(communicator, iface_pc.heap[iface_pc.read.slice])
    /\ comm_ret' = CommRet("read", << >>, << >>)
    /\ UNCHANGED <<trackvars, nmsgs, aggvars, extvars>>

\* merged_data[topic].extend(data_list), the sort, and the return
ReadExtend ==
    /\ iface_pc.read.pc = "extend"
    /\ iface_pc' = [iface_pc EXCEPT
           !.read = [pc |-> "idle", data_list |-> 0, slice |-> 0,
                     reads |-> iface_pc.read.reads + 1]]
    /\ comm_ret' = CommRet("raw_data", communicator.interfaces,
                           SortMerged(<< [key |-> T_lat,
                                          val |-> iface_pc.heap[iface_pc.read.data_list]] >>))
    /\ UNCHANGED <<trackvars, communicator, nmsgs, aggvars, extvars>>

NextTrim == AppendLoad \/ AppendStore \/ ReadItems \/ ReadSlice \/ ReadStore \/ ReadExtend

SpecTrim == InitTrim /\ [][NextTrim]_vars

(***************************************************************************)
(* Communicator.add_interfaces                                             *)
(***************************************************************************)
\* the kwargs of one instance: kwarg['name'] is None or a name
Kwargs(name) == [name |-> name, topics |-> <<T_wind>>]

\* interface_class.__name__, with '_' + kwarg['name'] when the name is not None
class_name(interface_class, kwarg) ==
    IF kwarg.name # None THEN interface_class \o "_" \o kwarg.name[1]
    ELSE interface_class

\* the inner loop of add_interfaces over the list of kwargs of one class
RECURSIVE add_instances(_, _, _, _)
add_instances(r, interface_class, kwargs, k) ==
    IF k > Len(kwargs) THEN r
    ELSE LET key == class_name(interface_class, kwargs[k])
         IN  IF DictHas(r.comm.interfaces, key)
             THEN add_instances([r EXCEPT !.warnings = Append(@, key)],
                                interface_class, kwargs, k + 1)
             ELSE add_instances(
                      [r EXCEPT !.comm.interfaces =
                          DictSet(@, key, InterfaceInit(kwargs[k].topics))],
                      interface_class, kwargs, k + 1)

\* Communicator.add_interfaces(interfaces) for a dict: an item whose value is a
\* list is instantiated, an item whose value is anything else is passed over
RECURSIVE add_interfaces_from(_, _, _)
add_interfaces_from(r, interfaces, k) ==
    IF k > Len(interfaces) THEN r
    ELSE add_interfaces_from(
             IF interfaces[k].shape = "list"
             THEN add_instances(r, interfaces[k].class, interfaces[k].kwargs, 1)
             ELSE r,
             interfaces, k + 1)

add_interfaces(comm, interfaces) ==
    add_interfaces_from(Done(comm, FALSE, << >>, << >>), interfaces, 1)

\* what a caller declares for one class: {Class: kwargs} or {Class: [kwargs, ...]}
InstanceNames == { None, Some("s1"), Some("s2") }

Declarations(interface_class) ==
    { [class |-> interface_class, shape |-> "dict", kwargs |-> <<Kwargs(n)>>] :
        n \in InstanceNames }
      \cup { [class |-> interface_class, shape |-> "list", kwargs |-> <<Kwargs(n)>>] :
               n \in InstanceNames }
      \cup { [class |-> interface_class, shape |-> "list",
              kwargs |-> <<Kwargs(n), Kwargs(m)>>] :
               n \in InstanceNames, m \in InstanceNames }

\* the dicts a caller passes: one class, or two
InterfaceSpecs ==
    { <<d>> : d \in Declarations("MQTTInterface") \cup Declarations("SerialInterface") }
      \cup { <<d, e>> : d \in Declarations("MQTTInterface"),
                        e \in Declarations("SerialInterface") }

AddInterfaces ==
    \E interfaces \in InterfaceSpecs :
        /\ nmsgs < MaxAdds
        /\ nmsgs' = nmsgs + 1
        /\ \E r \in { add_interfaces(communicator, interfaces) } :
              /\ communicator' = r.comm
              /\ comm_ret' = CommRet("add_interfaces", communicator.interfaces,
                                     [args |-> <<interfaces>>, raised |-> r.raised,
                                      calls |-> r.calls, warnings |-> r.warnings])
        /\ UNCHANGED <<trackvars, iface_pc, aggvars, extvars>>

NextAdd == AddInterfaces

SpecAdd == InitLink /\ [][NextAdd]_vars

(***************************************************************************)
(* The preprocessors applied again and again to the growing fused view     *)
(***************************************************************************)
\* the offsets a caller sets
Offsets == {0, 2}

\* a sample arrives on a topic; datetime.now() may not have advanced since the
\* last one
Receive ==
    \E topic \in {T_wind, T_long, T_roll}, adv \in {0, 1} :
        /\ nmsgs < MaxSamples
        /\ nmsgs' = nmsgs + 1
        /\ clock' = clock + adv
        /\ fused_view' = DictSet(fused_view, topic,
               Append(TopicList(fused_view, topic),
                      Observed(clock + adv, Reading(nmsgs + 1))))
        /\ ret' = RetValue("receive", FALSE, << >>)
        /\ UNCHANGED <<track, now, disk_ok, faults, h_first, h_run, h_replay>>
        /\ UNCHANGED <<communicator, comm_ret, iface_pc, aggvars, processors, database>>

ApplyUnitConversion ==
    \E r \in { UnitConversion_apply(processors.uc, fused_view) } :
        /\ processors' = [processors EXCEPT !.uc = r.uc]
        /\ fused_view' = r.data
        /\ ret' = RetValue("UnitConversion.apply", FALSE, << >>)
        /\ UNCHANGED <<track, now, clock, disk_ok, faults, h_first, h_run, h_replay>>
        /\ UNCHANGED <<commvars, aggvars, database>>

\* AngleOffset.apply; h_seen remembers the view it returned
ApplyAngleOffset ==
    \E r \in { AngleOffset_apply(processors.ao, fused_view) } :
        /\ processors' = [processors EXCEPT !.ao = r.ao, !.h_seen = r.data]
        /\ fused_view' = r.data
        /\ ret' = RetValue("AngleOffset.apply", FALSE, << >>)
        /\ UNCHANGED <<track, now, clock, disk_ok, faults, h_first, h_run, h_replay>>
        /\ UNCHANGED <<commvars, aggvars, database>>

SetOffset ==
    \E offset \in Offsets :
        /\ DictGet(processors.ao.offsets, T_roll) # offset
        /\ processors' = [processors EXCEPT !.ao = set_offset(@, T_roll, offset)]
        /\ ret' = RetValue("set_offset", FALSE, <<offset>>)
        /\ UNCHANGED <<track, now, clock, disk_ok, faults, h_first, h_run, h_replay>>
        /\ UNCHANGED <<commvars, aggvars, fused_view, database>>

Calibrate ==
    /\ processors' = [processors EXCEPT !.ao = calibrate(@)]
    /\ ret' = RetValue("calibrate", FALSE, << >>)
    /\ UNCHANGED <<track, now, clock, disk_ok, faults, h_first, h_run, h_replay>>
    /\ UNCHANGED <<commvars, aggvars, fused_view, database>>

NextProc ==
    Receive \/ ApplyUnitConversion \/ ApplyAngleOffset \/ SetOffset \/ Calibrate

\* the preprocessors as constructed, nothing received
InitProc == TrackIdle(None) /\ LiveIdle

SpecProc == InitProc /\ [][NextProc]_vars

(***************************************************************************)
(* The Database over a directory in which track files appear and disappear *)
(***************************************************************************)
\* the track files a Track writes: an export in the directory, a checkpoint in
\* chk/
TrackNames == { Name("t1", FALSE, "json"), Name("t1", TRUE, "json"),
                Name("t2", FALSE, "json") }

\* the identifiers a caller passes: an index or a filename
TrackIds ==
    { [by |-> "index", index |-> i] : i \in 0..MaxFiles }
        \cup { [by |-> "filename", filename |-> n] : n \in TrackNames }

\* what the last Database call did
DbRet(op, args, raised, msg) ==
    RetValue(op, raised, [args |-> args, msg |-> msg])

\* a Track (or anything else) writes a track file: a list of points, an empty
\* list, text that is not a track, or bytes that are not text
WriteTrackFile ==
    \E name \in TrackNames, content \in {"points", "empty", "malformed", "undecodable"} :
        /\ nmsgs < MaxFiles
        /\ nmsgs' = nmsgs + 1
        /\ database' = IF name.chk
                       THEN [database EXCEPT !.chk = WriteFile(@, name, content)]
                       ELSE [database EXCEPT !.directory = WriteFile(@, name, content)]
        /\ ret' = DbRet("write", <<name>>, FALSE, FALSE)
        /\ UNCHANGED <<track, now, clock, disk_ok, faults, h_first, h_run, h_replay>>
        /\ UNCHANGED <<communicator, comm_ret, iface_pc, aggvars, processors, fused_view>>

\* a checkpoint file is deleted (Track.end_run deletes the ordinary checkpoints)
DeleteCheckpoint ==
    \E i \in 1..Len(database.chk) :
        /\ database' = [database EXCEPT !.chk = RemoveFile(@, database.chk[i].name)]
        /\ ret' = DbRet("delete", <<database.chk[i].name>>, FALSE, FALSE)
        /\ UNCHANGED <<track, now, clock, disk_ok, faults, h_first, h_run, h_replay>>
        /\ UNCHANGED <<commvars, aggvars, processors, fused_view>>

LoadTracks ==
    /\ database' = load_tracks(database).db
    /\ ret' = DbRet("load_tracks", << >>, load_tracks(database).raised, FALSE)
    /\ UNCHANGED <<track, now, clock, disk_ok, faults, h_first, h_run, h_replay>>
    /\ UNCHANGED <<commvars, aggvars, processors, fused_view>>

RemoveTrack ==
    \E track_id \in TrackIds, delete_from_disk \in BOOLEAN, fails \in BOOLEAN :
        /\ fails => delete_from_disk
        /\ \E r \in { remove_track(database, track_id, delete_from_disk, fails) } :
              /\ database' = r.db
              /\ ret' = DbRet("remove_track", <<track_id, delete_from_disk, fails>>,
                              r.raised, FALSE)
        /\ UNCHANGED <<track, now, clock, disk_ok, faults, h_first, h_run, h_replay>>
        /\ UNCHANGED <<commvars, aggvars, processors, fused_view>>

ExportTrack ==
    \E track_id \in TrackIds, export_format \in ExportFormats, write_ok \in BOOLEAN :
        \E r \in { export_track(database, track_id, export_format, write_ok) } :
            /\ database' = r.db
            /\ ret' = DbRet("export_track", <<track_id, export_format>>, FALSE, r.msg)
            /\ UNCHANGED <<track, now, clock, disk_ok, faults, h_first, h_run, h_replay>>
            /\ UNCHANGED <<commvars, aggvars, processors, fused_view>>

NextDb == WriteTrackFile \/ DeleteCheckpoint \/ LoadTracks \/ RemoveTrack \/ ExportTrack

\* Database(directory) over a directory that holds no track file yet
InitDb == TrackIdle(None) /\ LiveIdle

SpecDb == InitDb /\ [][NextDb]_vars

(***************************************************************************)
(* The registry kept up to date by incremental scans                       *)
(***************************************************************************)
\* a track file is written, for the first time or again: its mtime changes
TouchTrackFile ==
    \E name \in TrackNames, content \in {"points", "malformed", "undecodable"} :
        /\ nmsgs < MaxFiles
        /\ nmsgs' = nmsgs + 1
        /\ \E filepath \in { IF name.chk THEN "chk" ELSE "directory" } :
              database' =
                [(IF name.chk
                  THEN [database EXCEPT !.chk = WriteFile(@, name, content)]
                  ELSE [database EXCEPT !.directory = WriteFile(@, name, content)])
                 EXCEPT !.mtime = DictSet(@, [filepath |-> filepath, name |-> name],
                                          nmsgs + 1)]
        /\ ret' = DbRet("write", <<name>>, FALSE, FALSE)
        /\ UNCHANGED <<track, now, clock, disk_ok, faults, h_first, h_run, h_replay>>
        /\ UNCHANGED <<communicator, comm_ret, iface_pc, aggvars, processors, fused_view>>

\* a track file is deleted
DeleteTrackFile ==
    \E name \in TrackNames :
        /\ Exists(IF name.chk THEN database.chk ELSE database.directory, name)
        /\ database' = IF name.chk
                       THEN [database EXCEPT !.chk = RemoveFile(@, name)]
                       ELSE [database EXCEPT !.directory = RemoveFile(@, name)]
        /\ ret' = DbRet("delete", <<name>>, FALSE, FALSE)
        /\ UNCHANGED <<track, now, clock, disk_ok, faults, h_first, h_run, h_replay>>
        /\ UNCHANGED <<commvars, aggvars, processors, fused_view>>

LoadTracksIncrementally ==
    /\ \E r \in { load_tracks_incrementally(database) } :
          /\ database' = r.db
          /\ ret' = DbRet("load_tracks_incrementally", << >>, r.raised, FALSE)
    /\ UNCHANGED <<track, now, clock, disk_ok, faults, h_first, h_run, h_replay>>
    /\ UNCHANGED <<commvars, aggvars, processors, fused_view>>

NextInc == TouchTrackFile \/ DeleteTrackFile \/ LoadTracks \/ LoadTracksIncrementally

SpecInc == InitDb /\ [][NextInc]_vars

(***************************************************************************)
(* Claims about Track                                                      *)
(***************************************************************************)
\* a step that is a call of add_point
AddPointStep == ret'.op = "add_point" /\ clock' = clock + 1 /\ UNCHANGED livevars

\* C1 (as stated): once a Track, also one built without field names, has
\* accepted its first point, an add_point whose key set differs from the first
\* point's raises and appends nothing.
C1_Original ==
    [][ (AddPointStep /\ h_first # None /\ ret'.fields # h_first[1])
            => (ret'.raised /\ track'.data_points = track.data_points) ]_vars

\* C1 (amended): on a Track built with field names, once it has accepted its
\* first point, an add_point whose key set differs from the first point's raises
\* and changes nothing of the Track; on a Track built without field names
\* (the default) add_point never raises and appends the point.
C1_FieldConsistency ==
    [][ AddPointStep =>
          /\ (track.field_names # None /\ h_first # None
                  /\ ret'.fields # h_first[1])
                => (ret'.raised /\ track' = Call(track))
          /\ track.field_names = None
                => (~ret'.raised
                      /\ track'.data_points[Len(track'.data_points)].timestamp = clock') ]_vars

\* C1 witness: a Track with field names that holds an accepted point has just
\* rejected a point with another key set
C1_Witness ==
    /\ ret.op = "add_point" /\ ret.raised
    /\ track.field_names # None
    /\ h_first # None /\ ret.fields # h_first[1]
    /\ Len(track.data_points) >= 1

\* the file end_run exported, if it wrote one
Exported == OutWrites(track.io_log)

\* C2: start_run() on an on-demand Track, then N >= 1 add_point calls without
\* capacity eviction, then end_run() writes one export file holding exactly
\* those N points in order, and no ordinary checkpoint file remains.
C2_SaveModeRoundTrip ==
    (ret.op = "end_run" /\ ~ret.noop /\ h_run.started
        /\ Len(h_run.points) >= 1 /\ h_run.evictions = 0)
      => /\ Len(Exported) = 1
         /\ Exported[1].content = h_run.points
         /\ NonFull(track.chk_dir) = << >>

\* C3: add_point on a Track holding more than max_datapoints points, in either
\* save mode, writes exactly one "-full" checkpoint holding all the points held
\* before the call and leaves the Track with the newest point only.
C3_CapacityEviction ==
    [][ (AddPointStep /\ ~ret'.raised /\ Len(track.data_points) > MaxDatapoints)
          => /\ Len(FullWrites(track'.io_log)) = 1
             /\ FullWrites(track'.io_log)[1].content = track.data_points
             /\ Len(track'.data_points) = 1
             /\ track'.data_points[1].timestamp = clock' ]_vars

\* C4: in a continuous run with at least one capacity eviction, the "-full"
\* checkpoints written at eviction followed by the file end_run exports hold
\* every point added during the run exactly once, in order.
C4_NoGapNoOverlap ==
    (ret.op = "end_run" /\ ~ret.noop /\ h_run.evictions >= 1)
      => /\ Len(Exported) = 1
         /\ Concat(h_run.full) \o Exported[1].content = h_run.points

\* the last n elements of a sequence
LastN(seq, n) == SubSeq(seq, Len(seq) - n + 1, Len(seq))

\* C5: in a continuous run, after more than max_checkpoint_files ordinary
\* checkpoint writes exactly max_checkpoint_files ordinary checkpoint files
\* remain, the newest ones, and every "-full" file written is still in the
\* directory with the content it was written with.
C5_CheckpointRotation ==
    track.save_mode = "continuous" =>
      /\ Len(h_run.chk) > MaxCheckpointFiles
           => NonFull(track.chk_dir) = LastN(h_run.chk, MaxCheckpointFiles)
      /\ \A i \in 1..Len(h_run.full) :
           \E j \in 1..Len(track.chk_dir) : track.chk_dir[j] = h_run.full[i]

\* whether a is a prefix of b
IsPrefix(a, b) == Len(a) <= Len(b) /\ a = SubSeq(b, 1, Len(a))

\* C6: in replay mode over a loaded sequence of L >= 1 points the k-th call of
\* get_current returns exactly the first min(k, L) points, the cursor never
\* exceeds L and the loaded sequence is not modified; so the snapshots are
\* prefixes of the loaded sequence and their lengths never decrease.
C6_ReplayCursor ==
    /\ [] ( (h_replay.loaded # None /\ Len(h_replay.loaded[1]) >= 1) =>
              /\ track.mode = "replay"
              /\ track.data_points = h_replay.loaded[1]
              /\ track.replay_index <= Len(track.data_points)
              /\ ret.op = "get_current" =>
                   /\ ~ret.raised
                   /\ ret.value = SubSeq(track.data_points, 1,
                                         Min(h_replay.calls, Len(track.data_points))) )
    /\ [][ (ret.op = "get_current" /\ ret'.op = "get_current"
              /\ h_replay.loaded # None /\ Len(h_replay.loaded[1]) >= 1)
             => (Len(ret'.value) >= Len(ret.value)
                   /\ IsPrefix(ret'.value, h_replay.loaded[1])) ]_vars

\* C6 witness: the sequence is exhausted, and a later call has returned all of it
C6_Witness ==
    /\ h_replay.loaded # None /\ Len(h_replay.loaded[1]) >= 2
    /\ ret.op = "get_current"
    /\ h_replay.calls > Len(h_replay.loaded[1])
    /\ ret.value = h_replay.loaded[1]

(***************************************************************************)
(* Claims about the Communicator                                           *)
(***************************************************************************)
\* the buffer of the j-th topic of the i-th interface, in a dict of interfaces
Buffer(interfaces, i, j) == interfaces[i].val.raw_data[j].val

\* the (interface, topic) slots of the Communicator
Slots ==
    UNION { { <<i, j>> : j \in 1..Len(communicator.interfaces[i].val.raw_data) } :
              i \in 1..Len(communicator.interfaces) }

\* the buffers that hold a topic, concatenated in interface order
RECURSIVE Gathered(_, _, _)
Gathered(interfaces, topic, i) ==
    IF i > Len(interfaces) THEN << >>
    ELSE (IF DictHas(interfaces[i].val.raw_data, topic)
          THEN DictGet(interfaces[i].val.raw_data, topic) ELSE << >>)
             \o Gathered(interfaces, topic, i + 1)

IsSortedByTs(list) ==
    \A j, k \in 1..Len(list) : j < k => list[j].ts <= list[k].ts

\* C7: every topic's list in the value Communicator.raw_data returns is
\* non-decreasing in timestamp, and holds as many samples as the buffers of
\* that topic held, whatever the arrival order and also when several
\* interfaces report the topic.
C7_MergeOrdering ==
    comm_ret.op = "raw_data" =>
        \A n \in 1..Len(comm_ret.value) :
            /\ IsSortedByTs(comm_ret.value[n].val)
            /\ Len(comm_ret.value[n].val)
                  = Len(Gathered(comm_ret.before, comm_ret.value[n].key, 1))

\* C7 witness: a read has returned a topic that two interfaces reported, whose
\* buffers put one after the other were not in timestamp order
C7_Witness ==
    /\ comm_ret.op = "raw_data"
    /\ \E n \in 1..Len(comm_ret.value) :
          /\ Buffer(comm_ret.before, 1, 1) # << >>
          /\ Buffer(comm_ret.before, 2, 1) # << >>
          /\ comm_ret.value[n].key = T_lat
          /\ ~IsSortedByTs(Gathered(comm_ret.before, T_lat, 1))
          /\ IsSortedByTs(comm_ret.value[n].val)

LastOfUnit(view, topic) ==
    view[CHOOSE n \in 1..Len(view) :
            /\ view[n].key[1] = topic[1]
            /\ \A m \in (n + 1)..Len(view) : view[m].key[1] # topic[1]]

AggregateStep == agg_pc.loop = "aggregate" /\ Len(h_cycles') = Len(h_cycles) + 1

\* C10: a cycle in which the getter or add_point throws leaves running as it
\* was and the Track's points as they were, and the loop goes on to sleep; after
\* the sleep the loop tests running and, if it is set, starts the next cycle,
\* which appends the DataPoint flattened from the view it fetches.
C10_FaultIsolation ==
    /\ [][ AggregateStep =>
              /\ agg_pc'.loop = "sleep"
              /\ aggregator'.running = aggregator.running
              /\ h_cycles'[Len(h_cycles')] # "ok"
                    => track'.data_points = track.data_points
              /\ h_cycles'[Len(h_cycles')] = "ok"
                    => /\ comm_ret'.op = "raw_data"
                       /\ aggregator'.raw_data = <<comm_ret'.value>>
                       /\ track'.data_points[Len(track'.data_points)].timestamp = clock'
                       /\ Len(track'.data_points) >= 1 ]_vars
    /\ [][ (agg_pc.loop = "sleep" /\ agg_pc'.loop # "sleep" /\ aggregator.running)
              => agg_pc'.loop = "aggregate" ]_vars

\* C10 witness: the getter threw in one cycle, and the next cycle has appended a
\* point while the loop is still running
C10_Witness ==
    /\ Len(h_cycles) >= 2
    /\ h_cycles[Len(h_cycles) - 1] = "getter"
    /\ h_cycles[Len(h_cycles)] = "ok"
    /\ ret.op = "aggregate" /\ ~ret.raised
    /\ aggregator.running
    /\ agg_pc.loop = "sleep"
    /\ Len(track.data_points) >= 1

(***************************************************************************)
(* Claims about the default save mode                                      *)
(***************************************************************************)
\* C11 (as stated): a newly constructed Track is in save mode on-demand, and as
\* long as start_run() has not been called no checkpoint file and no export
\* file is written.
C11_Original ==
    /\ ret.op = "init" => track.save_mode = "on-demand"
    /\ track.chk_dir = << >>
    /\ track.out_dir = << >>

\* C11 (amended): a newly constructed Track is in save mode continuous; its
\* first add_point appends the point and writes a checkpoint file without any
\* start_run(); an add_point on a Track in save mode on-demand appends the
\* point and writes no file.
C11_DefaultSaveMode ==
    /\ [] (ret.op = "init" => track.save_mode = "continuous")
    /\ [][ (AddPointStep /\ ret.op = "init")
              => /\ Len(track'.data_points) = 1
                 /\ Len(track'.chk_dir) = 1
                 /\ Len(ChkWrites(track'.io_log)) = 1 ]_vars
    /\ [][ (AddPointStep /\ track.save_mode = "on-demand")
              => /\ track'.data_points # track.data_points
                 /\ track'.io_log = << >>
                 /\ track'.chk_dir = track.chk_dir
                 /\ track'.out_dir = track.out_dir ]_vars

\* C11 witness: the first add_point on a new Track has written a checkpoint
\* file, and start_run has not been called
C11_Witness ==
    /\ ret.op = "add_point"
    /\ ~h_run.started
    /\ track.save_mode = "continuous"
    /\ Len(track.data_points) = 1
    /\ track.chk_dir # << >>

(***************************************************************************)
(* Claims about the life cycle of the Aggregator                           *)
(***************************************************************************)
\* C12: with no stop() in between, after any number of start() calls exactly
\* one loop thread is alive, and the second and later calls spawn nothing and
\* change nothing of the Aggregator, the Track or the Communicator.
C12_StartIdempotent ==
    /\ [] (agg_pc.live <= 1)
    /\ [] (agg_pc.starts >= 1 => (agg_pc.live = 1 /\ aggregator.running))
    /\ [][ (agg_pc.starts >= 1 /\ agg_pc'.starts = agg_pc.starts + 1)
              => /\ aggregator' = aggregator
                 /\ agg_pc'.loop = agg_pc.loop
                 /\ agg_pc'.live = agg_pc.live
                 /\ UNCHANGED <<track, communicator, h_cycles>> ]_vars

\* C12 witness: start() has been called twice with no stop() in between, after
\* the loop had run a cycle, and one loop is alive
C12_Witness ==
    /\ agg_pc.starts = 2
    /\ agg_pc.live = 1
    /\ aggregator.running
    /\ Len(h_cycles) >= 1

\* C13: when stop() has returned the running flag is false and no loop thread
\* is alive; a cycle of aggregate() starts only while the flag is set and runs
\* only while it is set or a stop() is still waiting in join; a start() after
\* stop() runs one loop again.
C13_StopJoins ==
    /\ [] ( (~aggregator.running /\ agg_pc.stop = "idle")
               => (agg_pc.live = 0 /\ agg_pc.loop \in {"none", "done"}) )
    /\ [][ (agg_pc.stop = "joining" /\ agg_pc'.stop = "idle")
              => (~aggregator'.running /\ agg_pc'.live = 0) ]_vars
    /\ [][ (agg_pc.loop # "aggregate" /\ agg_pc'.loop = "aggregate")
              => aggregator.running ]_vars
    /\ [][ AggregateStep => (aggregator.running \/ agg_pc.stop = "joining") ]_vars
    /\ [][ (~aggregator.running /\ aggregator'.running)
              => (agg_pc'.live = 1 /\ agg_pc'.loop = "test") ]_vars

\* C13 witness: a loop ran a cycle, stop() returned, and a later start() has
\* spawned the one loop that is alive
C13_Witness ==
    /\ aggregator.running
    /\ agg_pc.loop = "test"
    /\ agg_pc.stop = "idle"
    /\ agg_pc.live = 1
    /\ Len(h_cycles) >= 1

\* C14: after the setter aggregator_refresh_rate(x) is invoked while the loop
\* runs, the interval is x, one loop is alive, and every sleep of the loop lasts
\* the interval the Aggregator has at that moment.
C14_RefreshRate ==
    /\ [] ( (ret.op = "aggregator_refresh_rate" /\ aggregator.running)
               => /\ ~ret.raised
                  /\ aggregator.interval = ret.value[1]
                  /\ agg_pc.live = 1 )
    /\ [][ (agg_pc.loop = "sleep" /\ agg_pc'.loop # "sleep")
              => agg_pc'.slept = <<aggregator.interval>> ]_vars

(***************************************************************************)
(* Claims about the Communicator's link operations                         *)
(***************************************************************************)
\* the names of the interfaces registered before the last call
RegisteredBefore == DictKeys(comm_ret.before)

\* the names of the interfaces the last call called, as a set
CalledNames == { comm_ret.value.calls[j].name : j \in 1..Len(comm_ret.value.calls) }

C16_ConnectIsolation ==
    comm_ret.op = "connect" =>
        /\ Len(comm_ret.value.calls) = Len(comm_ret.before)
        /\ \A i \in 1..Len(comm_ret.before) :
              /\ comm_ret.value.calls[i].name = comm_ret.before[i].key
              /\ comm_ret.value.calls[i].op = "connect"
              /\ ~comm_ret.value.calls[i].raised
                    => /\ communicator.interfaces[i].val.connected
                       /\ communicator.interfaces[i].val.thread \in {"test", "read"}
        /\ (\E i \in 1..Len(comm_ret.value.calls) : ~comm_ret.value.calls[i].raised)
              => ~comm_ret.value.raised

\* the first interface failed to connect and the second connected
C16_Witness ==
    /\ comm_ret.op = "connect"
    /\ Len(comm_ret.value.calls) = 2
    /\ comm_ret.value.calls[1].raised
    /\ ~comm_ret.value.calls[2].raised
    /\ ~communicator.interfaces[1].val.connected
    /\ communicator.interfaces[2].val.connected

\* C17: Communicator.connect raises when every registered interface failed to
\* connect, and signals that all failed (by raising, or by the warning "failed
\* to start all interfaces") only when there is at least one interface and all
\* of them failed
C17_AllFailedRaises ==
    comm_ret.op = "connect" =>
        LET all_failed ==
                /\ Len(comm_ret.before) >= 1
                /\ \A i \in 1..Len(comm_ret.value.calls) : comm_ret.value.calls[i].raised
            signalled ==
                \/ comm_ret.value.raised
                \/ \E j \in 1..Len(comm_ret.value.warnings) :
                       comm_ret.value.warnings[j] = "failed to start all interfaces"
        IN  /\ all_failed => comm_ret.value.raised
            /\ signalled => all_failed

\* C18: Communicator.disconnect calls disconnect on every interface, also after
\* one of them raised, raises exactly when one of them raised, and when it
\* returns normally every interface has connected = False
C18_DisconnectAll ==
    comm_ret.op = "disconnect" =>
        /\ CalledNames = RegisteredBefore
        /\ comm_ret.value.raised
              <=> \E j \in 1..Len(comm_ret.value.calls) : comm_ret.value.calls[j].raised
        /\ ~comm_ret.value.raised
              => \A i \in 1..Len(communicator.interfaces) :
                     ~communicator.interfaces[i].val.connected

\* C19: Communicator.refresh(force_reconnect=False) calls connect once on each
\* interface whose connected flag is false, also after the connect of another
\* one raised, calls nothing on an interface whose flag is true and leaves it
\* as it is, and does not raise
C19_RefreshDisconnectedOnly ==
    (comm_ret.op = "refresh" /\ comm_ret.value.args = <<FALSE>>) =>
        LET down == { comm_ret.before[i].key :
                        i \in { k \in 1..Len(comm_ret.before) :
                                  ~comm_ret.before[k].val.connected } }
        IN  /\ CalledNames = down
            /\ Len(comm_ret.value.calls) = Cardinality(down)
            /\ \A j \in 1..Len(comm_ret.value.calls) : comm_ret.value.calls[j].op = "connect"
            /\ \A i \in 1..Len(comm_ret.before) :
                  comm_ret.before[i].val.connected
                     => communicator.interfaces[i].val = comm_ret.before[i].val
            /\ ~comm_ret.value.raised

\* a refresh with one interface connected and two disconnected ones is not
\* possible with two interfaces: here the first is connected and left alone,
\* the connect of the second raised
C19_Witness ==
    /\ comm_ret.op = "refresh"
    /\ comm_ret.value.args = <<FALSE>>
    /\ Len(comm_ret.before) = 2
    /\ comm_ret.before[1].val.connected
    /\ ~comm_ret.before[2].val.connected
    /\ Len(comm_ret.value.calls) = 1
    /\ comm_ret.value.calls[1].raised

\* C20: once disconnect() of an interface has returned, and until connect() is
\* called on it again, its reader thread is not alive, connected is False and
\* nothing is appended to its buffer
C20_DisconnectStopsReader ==
    /\ [](\A i \in 1..Len(communicator.interfaces) :
             communicator.interfaces[i].key \in iface_pc.h_returned
                => /\ communicator.interfaces[i].val.thread \notin {"test", "read"}
                   /\ ~communicator.interfaces[i].val.connected
                   /\ ~communicator.interfaces[i].val.running)
    /\ [][\A i \in 1..Len(communicator.interfaces) :
             (/\ communicator.interfaces[i].key \in iface_pc.h_returned
              /\ communicator.interfaces[i].key \in iface_pc'.h_returned)
                => communicator'.interfaces[i].val.raw_data
                      = communicator.interfaces[i].val.raw_data]_vars

\* disconnect() of an interface has just returned: its reader thread, which
\* had delivered a sample, has ended
C20_Witness ==
    /\ comm_ret.op = "iface_disconnect"
    /\ iface_pc.disconnect = 0
    /\ \E i \in 1..Len(communicator.interfaces) :
          /\ communicator.interfaces[i].key \in iface_pc.h_returned
          /\ comm_ret.value.args = <<i>>
          /\ communicator.interfaces[i].val.thread = "dead"
          /\ DictGet(communicator.interfaces[i].val.raw_data, T_lat) # << >>

(***************************************************************************)
(* Claims about the interface buffers                                      *)
(***************************************************************************)
\* the buffer of a topic in an interface, empty when the topic has no entry
TopicBuffer(iface, topic) ==
    IF DictHas(iface.raw_data, topic) THEN DictGet(iface.raw_data, topic) ELSE << >>

\* C21: a message received on a topic, configured or not, makes that topic's
\* buffer one sample longer, keeps every sample stored before it and leaves
\* every other buffer as it is
C21_AppendOnly ==
    [][comm_ret'.op = "on_message" =>
          \E i \in 1..Len(communicator.interfaces), topic \in Topics :
              /\ Len(TopicBuffer(communicator'.interfaces[i].val, topic))
                    = Len(TopicBuffer(communicator.interfaces[i].val, topic)) + 1
              /\ IsPrefix(TopicBuffer(communicator.interfaces[i].val, topic),
                          TopicBuffer(communicator'.interfaces[i].val, topic))
              /\ \A k \in 1..Len(communicator.interfaces), other \in Topics :
                    (k # i \/ other # topic)
                       => TopicBuffer(communicator'.interfaces[k].val, other)
                             = TopicBuffer(communicator.interfaces[k].val, other)]_vars

(***************************************************************************)
(* Claims about the preprocessors                                          *)
(***************************************************************************)
\* how many samples of a list carry timestamp ts and value val
Count(list, ts, val) ==
    Cardinality({ j \in 1..Len(list) : list[j].ts = ts /\ list[j].val = val })

C23_CalibrateRaw ==
    (/\ ret.op = "calibrate"
     /\ TopicList(fused_view, T_roll) # << >>
     /\ TopicList(processors.h_seen, T_roll) = TopicList(fused_view, T_roll))
        => DictGet(processors.ao.offsets, T_roll)
              = 0 - TopicList(fused_view, T_roll)[Len(TopicList(fused_view, T_roll))].h_raw

(***************************************************************************)
(* Claims about the Database                                               *)
(***************************************************************************)
\* the track files of a directory that pass validation
ValidTracks(dir, chk_only) ==
    { i \in 1..Len(dir) : /\ dir[i].name.ext = "json"
                          /\ dir[i].name # DbFname
                          /\ chk_only => dir[i].name.chk
                          /\ dir[i].content \in {"points", "empty"} }

\* the entries of the registry that stand for a file of a directory
EntriesOf(filepath, name) ==
    { k \in 1..Len(database.tracks) : /\ database.tracks[k].filepath = filepath
                                      /\ database.tracks[k].filename = name }

\* C24: load_tracks never raises because of an invalid file, and after it the
\* registry holds one entry for each file of the directory and of chk/ that
\* passes validation, and nothing else: no entry for an invalid file or for the
\* registry file, none left from before
C24_RegistryMatchesDisk ==
    ret.op = "load_tracks" =>
        /\ ~ret.raised
        /\ \A i \in ValidTracks(database.directory, FALSE) :
              Cardinality(EntriesOf("directory", database.directory[i].name)) = 1
        /\ \A i \in ValidTracks(database.chk, TRUE) :
              Cardinality(EntriesOf("chk", database.chk[i].name)) = 1
        /\ Len(database.tracks)
              = Cardinality(ValidTracks(database.directory, FALSE))
                  + Cardinality(ValidTracks(database.chk, TRUE))

\* C25: when the registry holds an entry that matches id, remove_track(id)
\* removes that entry and no other, and raises only if delete_from_disk is set
\* and the deletion fails
C25_RemoveExactly ==
    [][(/\ ret'.op = "remove_track"
        /\ Lookup(database, ret'.value.args[1]) # None)
          => /\ \E k \in 1..Len(database.tracks) :
                   /\ database.tracks[k] = Lookup(database, ret'.value.args[1])[1]
                   /\ database'.tracks = SubSeq(database.tracks, 1, k - 1)
                         \o SubSeq(database.tracks, k + 1, Len(database.tracks))
             /\ ret'.raised => (ret'.value.args[2] /\ ret'.value.args[3])]_vars

\* C26: a format that export_track adds to an entry's exports has its file
\* "<base>.<format>" in the directory, and an export whose file exists and whose
\* format is already recorded changes neither the files nor the registry
C26_ExportsOnDisk ==
    [][ret'.op = "export_track" =>
          /\ \A k \in 1..Len(database'.tracks) :
                \A f \in database'.tracks[k].exports \ database.tracks[k].exports :
                    Exists(database'.directory,
                           Name(database'.tracks[k].filename.base,
                                database'.tracks[k].filename.chk, f))
          /\ \A k \in 1..Len(database.tracks) :
                (/\ Lookup(database, ret'.value.args[1]) = Some(database.tracks[k])
                 /\ ret'.value.args[2] \in database.tracks[k].exports
                 /\ Exists(database.directory,
                           Name(database.tracks[k].filename.base,
                                database.tracks[k].filename.chk, ret'.value.args[2])))
                    => database' = database]_vars

(***************************************************************************)
(* Claims about the JSON track file                                        *)
(***************************************************************************)
\* what a value of input_data is after the round trip: a datetime comes back as
\* the string str() wrote, every other value as itself
AsLoaded(v) == IF v.kind = "datetime" THEN str(v) ELSE v

\* C27 as stated: the Track that loaded an exported file holds the exported
\* points, equal in timestamp and in input_data, and is in replay mode
C27_RoundTripEqual ==
    (ret.op = "load" /\ h_replay.loaded # None) =>
        /\ track.data_points = h_replay.loaded[1]
        /\ track.mode = "replay"

\* C27 amended: the Track that loaded an exported file holds as many points, in
\* the same order, each with the exported timestamp, and with the exported
\* input_data except that a datetime value is the string str() wrote for it;
\* the Track is in replay mode
C27_RoundTrip ==
    (ret.op = "load" /\ h_replay.loaded # None) =>
        /\ Len(track.data_points) = Len(h_replay.loaded[1])
        /\ \A i \in 1..Len(track.data_points) :
              /\ track.data_points[i].timestamp = h_replay.loaded[1][i].timestamp
              /\ DOMAIN track.data_points[i].input_data
                    = DOMAIN h_replay.loaded[1][i].input_data
              /\ \A k \in DOMAIN track.data_points[i].input_data :
                    track.data_points[i].input_data[k]
                        = AsLoaded(h_replay.loaded[1][i].input_data[k])
        /\ track.mode = "replay"

\* two points, one with a datetime last_timestamp, exported and read back
C27_Witness ==
    /\ ret.op = "load"
    /\ h_replay.loaded # None
    /\ Len(track.data_points) = 2
    /\ \E i \in 1..2 :
          h_replay.loaded[1][i].input_data[<<"rm1", "last_timestamp">>].kind = "datetime"

(***************************************************************************)
(* Claims about add_interfaces                                             *)
(***************************************************************************)
\* the keys of the instances a dict declares, in either shape
DeclaredKeys(interfaces) ==
    UNION { { class_name(interfaces[k].class, interfaces[k].kwargs[j]) :
                j \in 1..Len(interfaces[k].kwargs) } : k \in 1..Len(interfaces) }

\* C28: add_interfaces does not raise, registers the keys it found plus one key
\* for each instance the dict declares, in either shape, and leaves the entries
\* it found as they were
C28_OneKeyPerInstance ==
    comm_ret.op = "add_interfaces" =>
        /\ ~comm_ret.value.raised
        /\ DictKeys(communicator.interfaces)
              = RegisteredBefore \cup DeclaredKeys(comm_ret.value.args[1])
        /\ \A i \in 1..Len(comm_ret.before) :
              communicator.interfaces[i] = comm_ret.before[i]

(***************************************************************************)
(* Claims about start_run and end_run                                      *)
(***************************************************************************)
\* the fields and files a call must leave alone to be a no-op
Untouched ==
    /\ track'.save_mode = track.save_mode
    /\ track'.data_points = track.data_points
    /\ track'.save_interval_start = track.save_interval_start
    /\ track'.last_checkpoint = track.last_checkpoint
    /\ track'.chk_dir = track.chk_dir
    /\ track'.out_dir = track.out_dir

\* C29: start_run in continuous mode and end_run in on-demand mode change
\* neither save_mode, data_points, _save_interval_start, _last_checkpoint nor
\* the files on disk
C29_NoOp ==
    [][(\/ ret'.op = "start_run" /\ track.save_mode = "continuous"
        \/ ret'.op = "end_run" /\ track.save_mode = "on-demand") => Untouched]_vars

\* start_run was called during a run that holds points and has written a
\* checkpoint
C29_Witness ==
    /\ ret.op = "start_run"
    /\ ret.noop
    /\ Len(track.data_points) >= 2
    /\ track.last_checkpoint # None
    /\ track.chk_dir # << >>

\* C30: end_run in continuous mode leaves save_mode on-demand,
\* _save_interval_start and _last_checkpoint cleared, no checkpoint file without
\* "-full" in the checkpoint directory, and every "-full" checkpoint file that
\* was there still there
C30_EndRunClears ==
    [][(ret'.op = "end_run" /\ track.save_mode = "continuous") =>
          /\ track'.save_mode = "on-demand"
          /\ track'.save_interval_start = None
          /\ track'.last_checkpoint = None
          /\ NonFull(track'.chk_dir) = << >>
          /\ \A i \in 1..Len(track.chk_dir) :
                IsFull(track.chk_dir[i]) =>
                    \E j \in 1..Len(track'.chk_dir) : track'.chk_dir[j] = track.chk_dir[i]]_vars

\* a run that wrote ordinary checkpoints and a "-full" one has been ended
C30_Witness ==
    /\ ret.op = "end_run"
    /\ ~ret.noop
    /\ h_run.chk # << >>
    /\ h_run.full # << >>
    /\ track.chk_dir # << >>

(***************************************************************************)
(* Claims about refresh(force_reconnect=True)                              *)
(***************************************************************************)
\* the positions, in the calls of the last operation, of the calls of op on name
CallsOn(name, op) ==
    { j \in 1..Len(comm_ret.value.calls) :
        comm_ret.value.calls[j].name = name /\ comm_ret.value.calls[j].op = op }

\* C31: refresh(force_reconnect=True) calls disconnect on every interface and
\* then connect on every interface, the disconnect of an interface before its
\* connect; when no connect raised every interface has been connected again and
\* its connected flag is true, also when a disconnect raised
C31_ForceReconnect ==
    (comm_ret.op = "refresh" /\ comm_ret.value.args = <<TRUE>>) =>
        /\ \A name \in RegisteredBefore :
              /\ Cardinality(CallsOn(name, "disconnect")) = 1
              /\ \A c \in CallsOn(name, "connect") :
                    \A d \in CallsOn(name, "disconnect") : d < c
        /\ (\A j \in 1..Len(comm_ret.value.calls) :
               comm_ret.value.calls[j].op = "connect" => ~comm_ret.value.calls[j].raised)
              => \A i \in 1..Len(communicator.interfaces) :
                    /\ Cardinality(CallsOn(communicator.interfaces[i].key, "connect")) = 1
                    /\ communicator.interfaces[i].val.connected

(***************************************************************************)
(* Claims about the serial read loop                                       *)
(***************************************************************************)
\* the buffer of the topic the lines carry
LatBuffer(interfaces) == DictGet(interfaces[1].val.raw_data, T_lat)

\* C32: a line that cannot be read, decoded or parsed does not end the read
\* loop and adds no sample to the buffer, the first line included; a
\* well-formed line read by the loop adds its samples at the end of the buffer
C32_BadFrameNotFatal ==
    comm_ret.op = "line" =>
        /\ comm_ret.value.kind \in {"malformed", "undecodable", "read_error"}
              => /\ communicator.interfaces[1].val.thread = "test"
                 /\ ~iface_pc.crashed
                 /\ LatBuffer(communicator.interfaces) = LatBuffer(comm_ret.before)
        /\ comm_ret.value.kind = "object"
              => /\ Len(LatBuffer(communicator.interfaces))
                       = Len(LatBuffer(comm_ret.before)) + 1
                 /\ IsPrefix(LatBuffer(comm_ret.before), LatBuffer(communicator.interfaces))

(***************************************************************************)
(* Claims about concurrent executions of aggregate                         *)
(***************************************************************************)
\* C33: two executions of aggregate() are never both inside the section that
\* fetches the view, and the DataPoint an execution appends is flattened from
\* the view that execution fetched
C33_FetchExclusive ==
    /\ ~(InFetch(agg_pc.pc[1]) /\ InFetch(agg_pc.pc[2]))
    /\ \A i \in 1..Len(h_cycles) : h_cycles[i].flat = Flatten(h_cycles[i].fetched)

(***************************************************************************)
(* Claims about the fused view and the trim                                *)
(***************************************************************************)
\* two lists hold the same samples, as multisets
SameSamples(a, b) ==
    /\ Len(a) = Len(b)
    /\ \A j \in 1..Len(a) : Count(a, a[j].ts, a[j].val) = Count(b, a[j].ts, a[j].val)

\* the topics the buffers of the interfaces hold
BufferedTopics(interfaces) ==
    UNION { DictKeys(interfaces[i].val.raw_data) : i \in 1..Len(interfaces) }

\* C35 as stated: the value a raw_data read returns holds, for every topic,
\* the samples the buffers hold for the topic after the read's trimming, as a
\* multiset
C35_ViewOfTrimmedBuffers ==
    comm_ret.op = "raw_data" =>
        /\ DictKeys(comm_ret.value) = BufferedTopics(communicator.interfaces)
        /\ \A n \in 1..Len(comm_ret.value) :
              SameSamples(comm_ret.value[n].val,
                          Gathered(communicator.interfaces, comm_ret.value[n].key, 1))

\* C35 amended: the value a raw_data read returns holds, for every topic, the
\* samples the buffers held for the topic when the read reached them, before
\* its trimming, as a multiset: no sample missing or duplicated, the samples
\* the read trims included
C35_ViewOfBuffersRead ==
    comm_ret.op = "raw_data" =>
        /\ DictKeys(comm_ret.value) = BufferedTopics(comm_ret.before)
        /\ \A n \in 1..Len(comm_ret.value) :
              SameSamples(comm_ret.value[n].val,
                          Gathered(comm_ret.before, comm_ret.value[n].key, 1))

\* a read has trimmed a buffer, and its value holds the samples it trimmed
C35_Witness ==
    /\ comm_ret.op = "raw_data"
    /\ \E s \in Slots :
          /\ Len(Buffer(communicator.interfaces, s[1], s[2]))
                < Len(Buffer(comm_ret.before, s[1], s[2]))
          /\ \E n \in 1..Len(comm_ret.value) :
                /\ comm_ret.value[n].key = comm_ret.before[s[1]].val.raw_data[s[2]].key
                /\ Len(comm_ret.value[n].val)
                      > Len(Gathered(communicator.interfaces, comm_ret.value[n].key, 1))

(***************************************************************************)
(* Claims about an append concurrent with the trim                         *)
(***************************************************************************)
\* the samples of a list, as a set
SamplesOf(list) == { list[j] : j \in 1..Len(list) }

\* C34: once the append and the read have both finished, every sample the read
\* loop appended is in the interface buffer, unless it is one of the oldest
\* samples a trim removed
C34_AppendSurvivesTrim ==
    (iface_pc.append.pc = "idle" /\ iface_pc.read.pc = "idle") =>
        \A x \in iface_pc.h_appended :
            \/ x \in SamplesOf(DictGet(communicator.interfaces[1].val.raw_data, T_lat))
            \/ x \in iface_pc.h_trimmed

(***************************************************************************)
(* Claims about the incremental scan                                       *)
(***************************************************************************)
\* the filenames of a registry, each with its checkpoint flag
Listing(tracks) ==
    { [filename |-> tracks[i].filename, checkpoint |-> tracks[i].checkpoint] :
        i \in 1..Len(tracks) }

\* C36: when load_tracks_incrementally has returned, the registry lists the
\* filenames, each with the checkpoint flag, that a full load_tracks over the
\* same files would list
C36_IncrementalAsFull ==
    (ret.op = "load_tracks_incrementally" /\ ~ret.raised
        /\ ~load_tracks(database).raised)
        => Listing(database.tracks) = Listing(load_tracks(database).db.tracks)

(***************************************************************************)
(* Claims about the bounds of a run                                        *)
(***************************************************************************)
\* C37: during a continuous run the recorded start of the run is an index
\* into data_points: 0 <= _save_interval_start <= len(data_points)
C37_StartWithinPoints ==
    (track.save_mode = "continuous" /\ track.save_interval_start # None)
        => /\ 0 <= track.save_interval_start[1]
           /\ track.save_interval_start[1] <= Len(track.data_points)

\* C38: end_run deletes checkpoint files only when its export was written: when
\* the export fails, the checkpoint files without "-full" are all still there
C38_CheckpointsKeptOnFailure ==
    [][(/\ ret'.op = "end_run"
        /\ track.save_mode # "on-demand"
        /\ track'.io_log # << >>
        /\ ~track'.io_log[Len(track'.io_log)].ok)
          => NonFull(track'.chk_dir) = NonFull(track.chk_dir)]_vars

(***************************************************************************)
(* Claims about the timestamp of a unit                                    *)
(***************************************************************************)
\* C39: in the DataPoint a cycle of aggregate() appended, every unit with a
\* topic that has samples has a non-null <unit>/last_timestamp, the timestamp
\* of the last sample of one of the unit's topics
C39_UnitTimestamp ==
    (ret.op = "aggregate" /\ ~ret.raised) =>
        LET view == aggregator.raw_data[1]
            point == track.data_points[Len(track.data_points)]
        IN  \A n \in 1..Len(view) :
                view[n].val # << >> =>
                    \E m \in 1..Len(view) :
                        /\ view[m].key[1] = view[n].key[1]
                        /\ view[m].val # << >>
                        /\ point.input_data[last_timestamp_id(view[n].key)]
                              = <<view[m].val[Len(view[m].val)].ts>>

(***************************************************************************)
(* Claims about the number of points held                                  *)
(***************************************************************************)
\* C40: whatever add_point, start_run and end_run were called, the Track holds
\* at most max_datapoints + 1 points
C40_BoundedPoints == Len(track.data_points) <= MaxDatapoints + 1

\* the Track held max_datapoints + 1 points and add_point took the capacity
\* branch: one of the old points and the new one are held
C40_Witness ==
    /\ ret.op = "add_point"
    /\ ret.evicted
    /\ ~ret.raised
    /\ Len(track.data_points) = 2

=============================================================================
